---- MODULE Spec2Model ----
(***************************************************************************)
(* Recommendation lifecycle and backtest engine of ai-stock.                *)
(*                                                                         *)
(*   backend/database/models.py          RecommendationRecord              *)
(*   backend/services/backtest_service.py BacktestService                  *)
(*   backend/services/scheduler_service.py SchedulerService                *)
(*   backend/main.py                      the /api/backtest endpoints      *)
(*                                                                         *)
(* Units.  Prices are integers.  A percentage is kept in hundredths of a    *)
(* percent, so that round(x, 2) is a rounding to an integer: 15.0 % is      *)
(* 1500 and -8.0 % is -800.  Time is counted in ticks of half a day, so     *)
(* that the calendar day of a timestamp (t \div TicksPerDay) and the whole  *)
(* days between two timestamps ((t2 - t1) \div TicksPerDay) are different   *)
(* things, as date() and timedelta.days are.  A nullable column holds       *)
(* None (<<>>) or Some(v) (<<v>>).                                          *)
(***************************************************************************)
EXTENDS Integers, Sequences, FiniteSets, TLC

VARIABLES
    records,    \* the table recommendation_records, row i has id i
    now,        \* datetime.now(), in ticks
    ticks,      \* how many times the clock has advanced
    cfg,        \* SchedulerService's stop-profit / stop-loss configuration
    jobs,       \* the running instance of each scheduler job (update_stock_prices)
    resp,       \* the value the last call returned to its caller
    sess        \* the open SQLAlchemy sessions of concurrently running close_position calls

vars == <<records, now, ticks, cfg, jobs, resp, sess>>

-----------------------------------------------------------------------------
(* Bounds of the model *)

MaxRecords == 2
MaxTicks == 2
MaxBatch == 2
\* the page size check_auto_close passes to get_records: 1000 in the code
\* (scheduler_service.py:86), scaled down with the store so that a store can
\* hold more active rows than one page
SWEEP_PAGE_SIZE == 2

-----------------------------------------------------------------------------
(* Program constants *)

\* scheduler_service.py:20-22, percentages in hundredths of a percent
STOP_PROFIT_PERCENT == 1500
STOP_LOSS_PERCENT == -800
MAX_HOLDING_DAYS == 30
TicksPerDay == 2

-----------------------------------------------------------------------------
(* Input domains *)

None == <<>>
Some(v) == <<v>>

Symbols == {"600000", "000001"}
Categories == {"shortterm", "trend"}
\* prices a caller or the provider can hand in; 0 is a missing or zero price
Prices == {0, 14}
\* prices a recommended stock carries (None: the key is there with no value)
EntryPrices == {None, Some(0), Some(12)}
\* what one get_stock_quote call can come to
\* (it raises, it returns None, it returns a quote with a price)
Quotes == {[kind |-> k, price |-> 0] : k \in {"raise", "none"}}
          \cup {[kind |-> "quote", price |-> p] : p \in {0, 11, 14}}
Reasons == {"profit", "manual"}
\* the steps by which the clock advances, in ticks
Jumps == {1}
JobIds == {"update_prices_trading_hours", "update_prices_after_close"}
Closers == {"c1", "c2"}

\* Python truthiness of a nullable number: None and 0 are falsy
Truthy(o) == o # None /\ o[1] # 0
\* Python's  a or b  on a nullable number a and a number b
OrElse(o, d) == IF Truthy(o) THEN o[1] ELSE d

-----------------------------------------------------------------------------
(* database/models.py *)

\* round(n / d, 0) for d > 0: to the nearest integer, a tie to the even one
RoundDiv(n, d) ==
    LET q == n \div d
        r == n % d
    IN  IF 2 * r < d THEN q
        ELSE IF 2 * r > d THEN q + 1
        ELSE IF q % 2 = 0 THEN q ELSE q + 1

\* round((price - entry_price) / entry_price * 100, 2), in hundredths of a percent
ProfitPercent(price, entry) == RoundDiv((price - entry) * 10000, entry)

\* (t2 - t1).days
WholeDays(t1, t2) == (t2 - t1) \div TicksPerDay

\* func.date(t), datetime.date()
DateOf(t) == t \div TicksPerDay

\* RecommendationRecord.calculate_profit
calculate_profit(r) ==
    IF r.entry_price # 0 /\ r.entry_price > 0
    THEN LET price == IF r.status = "closed" THEN r.close_price ELSE r.current_price
         IN  IF Truthy(price)
             THEN [r EXCEPT !.profit_percent = ProfitPercent(price[1], r.entry_price)]
             ELSE r
    ELSE r

\* RecommendationRecord.calculate_holding_days
calculate_holding_days(r, t) ==
    LET end_date == IF r.status = "closed" THEN r.close_date[1] ELSE t
    IN  [r EXCEPT !.holding_days = WholeDays(r.entry_date, end_date)]

\* a dictionary that reports the entry price as the current price
to_dict_entry(r) ==
    [id |-> r.id, symbol |-> r.symbol,
     current_price |-> r.entry_price,
     profit_percent |-> r.profit_percent,
     holding_days |-> r.holding_days]

\* RecommendationRecord.to_dict, the keys the sweep reads
to_dict(r) ==
    [id |-> r.id, symbol |-> r.symbol,
     current_price |-> OrElse(r.current_price, r.entry_price),
     profit_percent |-> r.profit_percent,
     holding_days |-> r.holding_days]

-----------------------------------------------------------------------------
(* services/backtest_service.py, each method on a store (a sequence of rows) *)

Ids(recs) == 1..Len(recs)

\* a row that takes the id of the first one
NewRecordFirstId(id, symbol, category, entry_price, t) ==
    [id |-> 1, symbol |-> symbol, category |-> category,
     entry_price |-> entry_price, entry_date |-> t,
     current_price |-> Some(entry_price), price_updated_at |-> Some(t),
     status |-> "active",
     close_price |-> None, close_date |-> None, close_reason |-> None,
     profit_percent |-> 0, holding_days |-> 0]

\* a row created without a price of its own
NewRecordUnpriced(id, symbol, category, entry_price, t) ==
    [id |-> id, symbol |-> symbol, category |-> category,
     entry_price |-> entry_price, entry_date |-> t,
     current_price |-> None, price_updated_at |-> None,
     status |-> "active",
     close_price |-> None, close_date |-> None, close_reason |-> None,
     profit_percent |-> 0, holding_days |-> 0]

\* the row create_recommendation builds
NewRecord(id, symbol, category, entry_price, t) ==
    [id |-> id, symbol |-> symbol, category |-> category,
     entry_price |-> entry_price, entry_date |-> t,
     current_price |-> Some(entry_price), price_updated_at |-> Some(t),
     status |-> "active",
     close_price |-> None, close_date |-> None, close_reason |-> None,
     profit_percent |-> 0, holding_days |-> 0]

\* a query that compares the whole timestamp where the code compares the date
ExistingAtInstant(recs, symbol, category, t) ==
    {i \in Ids(recs) : /\ recs[i].symbol = symbol
                       /\ recs[i].category = category
                       /\ recs[i].entry_date = t}

\* a query that looks among the active records alone
ExistingTodayActive(recs, symbol, category, t) ==
    {i \in Ids(recs) : /\ recs[i].symbol = symbol
                       /\ recs[i].category = category
                       /\ recs[i].status = "active"
                       /\ DateOf(recs[i].entry_date) = DateOf(t)}

\* the query of create_recommendation: same symbol, category and calendar day
ExistingToday(recs, symbol, category, t) ==
    {i \in Ids(recs) : /\ recs[i].symbol = symbol
                       /\ recs[i].category = category
                       /\ DateOf(recs[i].entry_date) = DateOf(t)}

Min(S) == CHOOSE x \in S : \A y \in S : x <= y

\* BacktestService.create_recommendation: <<store after, id returned or None>>.
\* entry_price is nullable here: a None violates NOT NULL at commit, the
\* exception is caught, rolled back and None is returned.
create_recommendation(recs, symbol, category, entry_price, t) ==
    LET existing == ExistingToday(recs, symbol, category, t)
    IN  IF existing # {} THEN <<recs, Some(Min(existing))>>
        ELSE IF entry_price = None THEN <<recs, None>>
        ELSE <<Append(recs, NewRecord(Len(recs) + 1, symbol, category, entry_price[1], t)),
               Some(Len(recs) + 1)>>

\* a batch that stops at the first item whose create fails
RECURSIVE batch_create_stopping(_, _, _, _)
batch_create_stopping(recs, stocks, category, t) ==
    IF stocks = <<>> THEN <<recs, 0>>
    ELSE LET one == create_recommendation(recs, Head(stocks).symbol, category,
                                          Head(stocks).price, t)
             rest == batch_create_stopping(one[1], Tail(stocks), category, t)
         IN  IF one[2] = None THEN <<recs, 0>>
             ELSE <<rest[1], rest[2] + 1>>

\* BacktestService.batch_create_recommendations: <<store after, count>>
RECURSIVE batch_create_recommendations(_, _, _, _)
batch_create_recommendations(recs, stocks, category, t) ==
    IF stocks = <<>> THEN <<recs, 0>>
    ELSE LET one == create_recommendation(recs, Head(stocks).symbol, category,
                                          Head(stocks).price, t)
             rest == batch_create_recommendations(one[1], Tail(stocks), category, t)
         IN  <<rest[1], rest[2] + (IF one[2] # None THEN 1 ELSE 0)>>

\* an update that does not look at the status of the row
UpdatedRowAnyStatus(r, price_data, t) ==
    IF r.symbol \in DOMAIN price_data
    THEN calculate_holding_days(
             calculate_profit([r EXCEPT !.current_price = Some(price_data[r.symbol]),
                                        !.price_updated_at = Some(t)]), t)
    ELSE r

\* BacktestService.update_prices: <<store after, number of rows updated>>
UpdatedRow(r, price_data, t) ==
    IF r.status = "active" /\ r.symbol \in DOMAIN price_data
    THEN calculate_holding_days(
             calculate_profit([r EXCEPT !.current_price = Some(price_data[r.symbol]),
                                        !.price_updated_at = Some(t)]), t)
    ELSE r

update_prices(recs, price_data, t) ==
    <<[i \in Ids(recs) |-> UpdatedRow(recs[i], price_data, t)],
      Cardinality({i \in Ids(recs) : recs[i].status = "active"
                                     /\ recs[i].symbol \in DOMAIN price_data})>>

\* update_prices while the database refuses the writes to the rows in faults:
\* the rows are flushed by the one commit, and a refused write rolls all back
update_prices_db(recs, price_data, t, faults) ==
    LET hit == {i \in Ids(recs) : recs[i].status = "active"
                                  /\ recs[i].symbol \in DOMAIN price_data}
    IN  IF hit \cap faults # {} THEN <<recs, 0>>
        ELSE update_prices(recs, price_data, t)

\* a close that sets the status, the price and the date but not the reason
ClosedRowHalf(r, close_price, close_reason, t) ==
    calculate_holding_days(
        calculate_profit([r EXCEPT !.status = "closed",
                                   !.close_price = Some(close_price),
                                   !.close_date = Some(t),
                                   !.current_price = Some(close_price)]), t)

\* a close that sets the price, the date and the reason but not the status
ClosedRowStillActive(r, close_price, close_reason, t) ==
    calculate_holding_days(
        calculate_profit([r EXCEPT !.close_price = Some(close_price),
                                   !.close_date = Some(t),
                                   !.close_reason = Some(close_reason),
                                   !.current_price = Some(close_price)]), t)

\* the assignments of close_position to a loaded row
ClosedRow(r, close_price, close_reason, t) ==
    calculate_holding_days(
        calculate_profit([r EXCEPT !.status = "closed",
                                   !.close_price = Some(close_price),
                                   !.close_date = Some(t),
                                   !.close_reason = Some(close_reason),
                                   !.current_price = Some(close_price)]), t)

\* a close_position without the check of lines 352-354
close_position_unchecked(recs, record_id, close_price, close_reason, t) ==
    IF record_id \notin Ids(recs) THEN <<recs, FALSE>>
    ELSE <<[recs EXCEPT ![record_id] = ClosedRow(recs[record_id], close_price, close_reason, t)],
           TRUE>>

\* BacktestService.close_position run without interruption: <<store after, success>>
close_position(recs, record_id, close_price, close_reason, t) ==
    IF record_id \notin Ids(recs) THEN <<recs, FALSE>>
    ELSE IF recs[record_id].status = "closed" THEN <<recs, FALSE>>
    ELSE <<[recs EXCEPT ![record_id] = ClosedRow(recs[record_id], close_price, close_reason, t)],
           TRUE>>

\* BacktestService.get_active_symbols
get_active_symbols(recs) == {recs[i].symbol : i \in {j \in Ids(recs) : recs[j].status = "active"}}

\* the period filter of get_records / get_summary: the rows it keeps
PeriodDays(period) ==
    IF period = "7d" THEN 7 ELSE IF period = "90d" THEN 90 ELSE 30

InPeriod(r, period, t) ==
    period = "all" \/ r.entry_date >= t - PeriodDays(period) * TicksPerDay

\* ORDER BY entry_date DESC over the rows S (rows of one entry_date in id order)
RECURSIVE OrderDesc(_, _)
OrderDesc(recs, S) ==
    IF S = {} THEN <<>>
    ELSE LET m == CHOOSE i \in S : \A j \in S :
                     \/ recs[j].entry_date < recs[i].entry_date
                     \/ recs[j].entry_date = recs[i].entry_date /\ i <= j
         IN  <<m>> \o OrderDesc(recs, S \ {m})

\* OFFSET (page - 1) * page_size LIMIT page_size
PageOf(seq, page, page_size) ==
    LET first == (page - 1) * page_size + 1
        last == IF page * page_size < Len(seq) THEN page * page_size ELSE Len(seq)
    IN  IF first > Len(seq) THEN <<>> ELSE SubSeq(seq, first, last)

\* BacktestService.get_records; status and category are None when not given
get_records(recs, period, status, category, page, page_size, t) ==
    LET match == {i \in Ids(recs) : /\ InPeriod(recs[i], period, t)
                                    /\ (status # None => recs[i].status = status[1])
                                    /\ (category # None => recs[i].category = category[1])}
        rows == PageOf(OrderDesc(recs, match), page, page_size)
    IN  [records |-> [k \in 1..Len(rows) |-> to_dict(recs[rows[k]])],
         total |-> Cardinality(match)]

\* the orders ORDER BY entry_date DESC can return the rows S in: the key is
\* all that is ordered, rows of one entry_date come in any order, and each
\* query is sorted on its own
Orderings(recs, S) ==
    {seq \in [1..Cardinality(S) -> S] :
        /\ \A k, l \in 1..Cardinality(S) : k # l => seq[k] # seq[l]
        /\ \A k \in 1..(Cardinality(S) - 1) :
              recs[seq[k]].entry_date >= recs[seq[k + 1]].entry_date}

\* BacktestService.get_records when the database returns the rows in order
get_records_in(recs, period, status, category, page, page_size, t, order) ==
    LET match == {i \in Ids(recs) : /\ InPeriod(recs[i], period, t)
                                    /\ (status # None => recs[i].status = status[1])
                                    /\ (category # None => recs[i].category = category[1])}
        rows == PageOf(order, page, page_size)
    IN  [records |-> [k \in 1..Len(rows) |-> to_dict(recs[rows[k]])],
         total |-> Cardinality(match)]

\* sum of f over the finite set S
RECURSIVE SumOver(_, _)
SumOver(f, S) ==
    IF S = {} THEN 0
    ELSE LET x == CHOOSE y \in S : TRUE
         IN  f[x] + SumOver(f, S \ {x})

\* max(...) and min(...) of the values of f over the non-empty set S
MaxOver(f, S) == f[CHOOSE x \in S : \A y \in S : f[y] <= f[x]]
MinOver(f, S) == f[CHOOSE x \in S : \A y \in S : f[x] <= f[y]]

\* the dictionary get_summary returns when no record matches (no avg_return)
EmptySummary(period) ==
    [total_return |-> 0, win_rate |-> 0, total_recommendations |-> 0,
     active_count |-> 0, closed_count |-> 0, avg_holding_days |-> 0,
     best_profit |-> 0, worst_loss |-> 0, period |-> period]

\* a summary whose total_return is the rounded mean times the count
get_summary_of_rounded(recs, period, t) ==
    LET match == {i \in Ids(recs) : InPeriod(recs[i], period, t)}
        total_count == Cardinality(match)
        active_count == Cardinality({i \in match : recs[i].status = "active"})
        profits == [i \in match |-> recs[i].profit_percent]
        win_count == Cardinality({i \in match : profits[i] > 0})
        total_return == SumOver(profits, match)
        holding_days == [i \in match |-> recs[i].holding_days]
    IN  IF match = {} THEN EmptySummary(period)
        ELSE [total_return |-> RoundDiv(total_return, total_count) * total_count,
              avg_return |-> RoundDiv(total_return, total_count),
              win_rate |-> RoundDiv(win_count * 1000, total_count),
              total_recommendations |-> total_count,
              active_count |-> active_count,
              closed_count |-> total_count - active_count,
              avg_holding_days |-> RoundDiv(SumOver(holding_days, match) * 10, total_count),
              best_profit |-> MaxOver(profits, match),
              worst_loss |-> MinOver(profits, match),
              period |-> period]

\* a count of wins that takes a profit of 0 for a win
WinCountWithZero(profits, match) == Cardinality({i \in match : profits[i] >= 0})

\* sum(1 for p in profits if p > 0)
WinCount(profits, match) == Cardinality({i \in match : profits[i] > 0})

\* BacktestService.get_summary.  Returns and profits are in hundredths of a
\* percent (round(x, 2)), win_rate in tenths of a percent and avg_holding_days
\* in tenths of a day (round(x, 1)); avg_return * total_count is total_return
\* again, so that rounding it is RoundDiv(total_return * total_count, total_count).
get_summary(recs, period, t) ==
    LET match == {i \in Ids(recs) : InPeriod(recs[i], period, t)}
        total_count == Cardinality(match)
        active_count == Cardinality({i \in match : recs[i].status = "active"})
        profits == [i \in match |-> recs[i].profit_percent]
        win_count == WinCount(profits, match)
        total_return == SumOver(profits, match)
        holding_days == [i \in match |-> recs[i].holding_days]
    IN  IF match = {} THEN EmptySummary(period)
        ELSE [total_return |-> RoundDiv(total_return * total_count, total_count),
              avg_return |-> RoundDiv(total_return, total_count),
              win_rate |-> RoundDiv(win_count * 1000, total_count),
              total_recommendations |-> total_count,
              active_count |-> active_count,
              closed_count |-> total_count - active_count,
              avg_holding_days |-> RoundDiv(SumOver(holding_days, match) * 10, total_count),
              best_profit |-> MaxOver(profits, match),
              worst_loss |-> MinOver(profits, match),
              period |-> period]

\* the days get_performance_curve looks back: a year for "all"
CurveDays(period) == IF period = "all" THEN 365 ELSE PeriodDays(period)

InCurve(r, period, t) == r.entry_date >= t - CurveDays(period) * TicksPerDay

\* the dates in the order of the rows that brought them in, newest first
RECURSIVE SortDesc(_)
SortDesc(S) ==
    IF S = {} THEN <<>>
    ELSE LET m == CHOOSE x \in S : \A y \in S : y <= x
         IN  <<m>> \o SortDesc(S \ {m})

\* sorted(daily_data.keys()): the dates in ascending order
RECURSIVE SortAsc(_)
SortAsc(S) ==
    IF S = {} THEN <<>>
    ELSE LET m == CHOOSE x \in S : \A y \in S : x <= y
         IN  <<m>> \o SortAsc(S \ {m})

\* a running sum of the rounded daily means
RECURSIVE CumulativeOfRounded(_, _, _, _)
CumulativeOfRounded(recs, match, sorted_dates, k) ==
    IF k = 0 THEN <<0, 1>>
    ELSE LET before == CumulativeOfRounded(recs, match, sorted_dates, k - 1)
             day == {i \in match : DateOf(recs[i].entry_date) = sorted_dates[k]}
             returns == SumOver([i \in day |-> recs[i].profit_percent], day)
             count == Cardinality(day)
         IN  <<before[1] + RoundDiv(returns, count), 1>>

\* cumulative after the first k dates, as the fraction <<numerator, denominator>>:
\* the sum of the unrounded daily means
RECURSIVE CumulativeAfter(_, _, _, _)
CumulativeAfter(recs, match, sorted_dates, k) ==
    IF k = 0 THEN <<0, 1>>
    ELSE LET before == CumulativeAfter(recs, match, sorted_dates, k - 1)
             day == {i \in match : DateOf(recs[i].entry_date) = sorted_dates[k]}
             returns == SumOver([i \in day |-> recs[i].profit_percent], day)
             count == Cardinality(day)
         IN  <<before[1] * count + returns * before[2], before[2] * count>>

\* BacktestService.get_performance_curve.  A date is the number of its day
\* (strftime("%Y-%m-%d") orders as the days do); returns are in hundredths of
\* a percent.
get_performance_curve(recs, period, t) ==
    LET match == {i \in Ids(recs) : InCurve(recs[i], period, t)}
        sorted_dates == SortAsc({DateOf(recs[i].entry_date) : i \in match})
        n == Len(sorted_dates)
        day(k) == {i \in match : DateOf(recs[i].entry_date) = sorted_dates[k]}
        cumulative(k) == CumulativeAfter(recs, match, sorted_dates, k)
    IN  [dates |-> sorted_dates,
         daily_returns |->
             [k \in 1..n |-> RoundDiv(SumOver([i \in day(k) |-> recs[i].profit_percent], day(k)),
                                      Cardinality(day(k)))],
         cumulative_returns |-> [k \in 1..n |-> RoundDiv(cumulative(k)[1], cumulative(k)[2])],
         daily_count |-> [k \in 1..n |-> Cardinality(day(k))],
         period |-> period]

-----------------------------------------------------------------------------
(* services/scheduler_service.py *)

DefaultConfig ==
    [stop_profit_percent |-> STOP_PROFIT_PERCENT,
     stop_loss_percent |-> STOP_LOSS_PERCENT,
     max_holding_days |-> MAX_HOLDING_DAYS,
     auto_close_enabled |-> TRUE]

\* a set_stop_config that tests its arguments for truth: 0 and False change nothing
set_stop_config_truthy(c, stop_profit, stop_loss, max_days, enabled) ==
    [stop_profit_percent |-> IF Truthy(stop_profit) THEN stop_profit[1] ELSE c.stop_profit_percent,
     stop_loss_percent |-> IF Truthy(stop_loss) THEN stop_loss[1] ELSE c.stop_loss_percent,
     max_holding_days |-> IF Truthy(max_days) THEN max_days[1] ELSE c.max_holding_days,
     auto_close_enabled |-> IF enabled = Some(TRUE) THEN TRUE ELSE c.auto_close_enabled]

\* SchedulerService.get_stop_config
get_stop_config(c) ==
    [stop_profit_percent |-> c.stop_profit_percent,
     stop_loss_percent |-> c.stop_loss_percent,
     max_holding_days |-> c.max_holding_days,
     auto_close_enabled |-> c.auto_close_enabled]

\* SchedulerService.set_stop_config: an argument that is None changes nothing
set_stop_config(c, stop_profit, stop_loss, max_days, enabled) ==
    [stop_profit_percent |-> IF stop_profit # None THEN stop_profit[1] ELSE c.stop_profit_percent,
     stop_loss_percent |-> IF stop_loss # None THEN stop_loss[1] ELSE c.stop_loss_percent,
     max_holding_days |-> IF max_days # None THEN max_days[1] ELSE c.max_holding_days,
     auto_close_enabled |-> IF enabled # None THEN enabled[1] ELSE c.auto_close_enabled]

\* the chain with the holding-days test first
CloseReasonExpiryFirst(d, c) ==
    IF d.holding_days >= c.max_holding_days THEN Some("expired")
    ELSE IF d.profit_percent >= c.stop_profit_percent THEN Some("profit")
    ELSE IF d.profit_percent <= c.stop_loss_percent THEN Some("loss")
    ELSE None

\* the chain with the reason of the endpoint in its last branch
CloseReasonManual(d, c) ==
    IF d.profit_percent >= c.stop_profit_percent THEN Some("profit")
    ELSE IF d.profit_percent <= c.stop_loss_percent THEN Some("loss")
    ELSE IF d.holding_days >= c.max_holding_days THEN Some("manual")
    ELSE None

\* the if / elif / elif chain of check_auto_close on one row of the page
CloseReason(d, c) ==
    IF d.profit_percent >= c.stop_profit_percent THEN Some("profit")
    ELSE IF d.profit_percent <= c.stop_loss_percent THEN Some("loss")
    ELSE IF d.holding_days >= c.max_holding_days THEN Some("expired")
    ELSE None

\* close_position when the database may refuse the write: an exception in
\* the try block is caught, rolled back and answered with False (lines 370-373)
close_position_db(recs, record_id, close_price, close_reason, t, raises) ==
    IF raises THEN <<recs, FALSE>>
    ELSE close_position(recs, record_id, close_price, close_reason, t)

\* a loop that gives up, with nothing to report, at the first close that fails
RECURSIVE SweepLoopAborting(_, _, _, _, _)
SweepLoopAborting(recs, page, c, t, faults) ==
    IF page = <<>> THEN <<recs, <<>>>>
    ELSE LET d == Head(page)
             close_reason == CloseReason(d, c)
             res == IF close_reason # None
                    THEN close_position_db(recs, d.id, d.current_price, close_reason[1], t,
                                           d.id \in faults)
                    ELSE <<recs, FALSE>>
             rest == SweepLoopAborting(res[1], Tail(page), c, t, faults)
         IN  IF close_reason # None /\ ~res[2] THEN <<recs, <<>>>>
             ELSE <<rest[1],
                    (IF res[2]
                     THEN <<[id |-> d.id, symbol |-> d.symbol,
                             profit_percent |-> d.profit_percent, reason |-> close_reason[1]]>>
                     ELSE <<>>) \o rest[2]>>

\* the loop of check_auto_close over the page it read: <<store after, closed_records>>;
\* faults are the ids of the rows whose write the database refuses meanwhile
RECURSIVE SweepLoop(_, _, _, _, _)
SweepLoop(recs, page, c, t, faults) ==
    IF page = <<>> THEN <<recs, <<>>>>
    ELSE LET d == Head(page)
             close_reason == CloseReason(d, c)
             res == IF close_reason # None
                    THEN close_position_db(recs, d.id, d.current_price, close_reason[1], t,
                                           d.id \in faults)
                    ELSE <<recs, FALSE>>
             rest == SweepLoop(res[1], Tail(page), c, t, faults)
         IN  <<rest[1],
               (IF res[2]
                THEN <<[id |-> d.id, symbol |-> d.symbol,
                        profit_percent |-> d.profit_percent, reason |-> close_reason[1]]>>
                ELSE <<>>) \o rest[2]>>

\* a sweep that does not look at the switch
check_auto_close_always(recs, c, t, faults) ==
    SweepLoop(recs,
              get_records(recs, "all", Some("active"), None, 1, SWEEP_PAGE_SIZE, t).records,
              c, t, faults)

\* SchedulerService.check_auto_close: <<store after, closed_records>>
check_auto_close_db(recs, c, t, faults) ==
    IF ~c.auto_close_enabled THEN <<recs, <<>>>>
    ELSE SweepLoop(recs,
                   get_records(recs, "all", Some("active"), None, 1, SWEEP_PAGE_SIZE, t).records,
                   c, t, faults)

\* the same with a database that refuses nothing
check_auto_close(recs, c, t) == check_auto_close_db(recs, c, t, {})

-----------------------------------------------------------------------------
(* The application: the scheduler's jobs and the HTTP endpoints, all on one
   asyncio event loop.  A handler runs without interruption up to its next
   await that suspends; update_stock_prices suspends at each get_stock_quote.
   resp holds what a call returned until its caller has taken it; the next
   call starts after that. *)

EmptyPriceData == [s \in {} |-> 0]

IdleJob ==
    [pc |-> "idle", symbols |-> {}, todo |-> {}, price_data |-> EmptyPriceData,
     quoted |-> EmptyPriceData, sweeps |-> 0, closed |-> <<>>, chunks |-> 0]

IdleSession ==
    [pc |-> "idle", id |-> 0, close_price |-> 0, close_reason |-> "manual",
     loaded |-> None, dirty |-> None, ret |-> None]

NoResponse == [op |-> "none", id |-> 0, val |-> <<>>]

Init ==
    /\ records = <<>>
    /\ now = 0
    /\ ticks = 0
    /\ cfg = DefaultConfig
    /\ jobs = [j \in JobIds |-> IdleJob]
    /\ resp = NoResponse
    /\ sess = [c \in Closers |-> IdleSession]

\* a job is between its last await and its return: nothing else runs meanwhile
InSync == \E j \in JobIds : jobs[j].pc \in {"settled", "sweep"}

\* a new call can start
Ready == ~InSync /\ resp = NoResponse

\* the caller takes the value returned
Return ==
    /\ ~InSync
    /\ resp # NoResponse
    /\ resp' = NoResponse
    /\ UNCHANGED <<records, now, ticks, cfg, jobs, sess>>

\* time passes
Tick(d) ==
    /\ ~InSync
    /\ ticks < MaxTicks
    /\ now' = now + d
    /\ ticks' = ticks + 1
    /\ UNCHANGED <<records, cfg, jobs, resp, sess>>

(* ---- BacktestService, called directly ---- *)

CreateRecommendation(symbol, category, entry_price) ==
    /\ Ready
    /\ Len(records) < MaxRecords
    /\ LET res == create_recommendation(records, symbol, category, entry_price, now)
       IN  /\ records' = res[1]
           /\ resp' = [op |-> "create", id |-> 0, val |-> res[2]]
    /\ UNCHANGED <<now, ticks, cfg, jobs, sess>>

\* also GET /api/recommendations (main.py:229-239), which passes the analyzer's stocks
BatchCreate(stocks, category) ==
    /\ Ready
    /\ Len(records) + Len(stocks) <= MaxRecords
    /\ LET res == batch_create_recommendations(records, stocks, category, now)
       IN  /\ records' = res[1]
           /\ resp' = [op |-> "batch", id |-> Len(stocks), val |-> Some(res[2])]
    /\ UNCHANGED <<now, ticks, cfg, jobs, sess>>

UpdatePrices(price_data) ==
    /\ Ready
    /\ LET res == update_prices(records, price_data, now)
       IN  /\ records' = res[1]
           /\ resp' = [op |-> "update", id |-> 0, val |-> Some(res[2])]
    /\ UNCHANGED <<now, ticks, cfg, jobs, sess>>

\* the same call while the database refuses the writes to the rows in faults
UpdatePricesFaults(price_data, faults) ==
    /\ Ready
    /\ LET res == update_prices_db(records, price_data, now, faults)
       IN  /\ records' = res[1]
           /\ resp' = [op |-> "update", id |-> 0, val |-> Some(res[2])]
    /\ UNCHANGED <<now, ticks, cfg, jobs, sess>>

ClosePosition(record_id, close_price, close_reason) ==
    /\ Ready
    /\ LET res == close_position(records, record_id, close_price, close_reason, now)
       IN  /\ records' = res[1]
           /\ resp' = [op |-> "close", id |-> record_id, val |-> Some(res[2])]
    /\ UNCHANGED <<now, ticks, cfg, jobs, sess>>

(* ---- main.py ---- *)

\* an endpoint that falls back on the entry price
close_position_api_entry(recs, record_id, close_price, t) ==
    IF close_price = None /\ record_id \notin Ids(recs) THEN <<recs, 404>>
    ELSE LET price == IF close_price = None
                      THEN recs[record_id].entry_price
                      ELSE close_price[1]
             res == close_position(recs, record_id, price, "manual", t)
         IN  <<res[1], IF res[2] THEN 200 ELSE 400>>

\* POST /api/backtest/close/{record_id}: <<store after, status code>>
close_position_api(recs, record_id, close_price, t) ==
    IF close_price = None /\ record_id \notin Ids(recs) THEN <<recs, 404>>
    ELSE LET price == IF close_price = None
                      THEN OrElse(recs[record_id].current_price, recs[record_id].entry_price)
                      ELSE close_price[1]
             res == close_position(recs, record_id, price, "manual", t)
         IN  <<res[1], IF res[2] THEN 200 ELSE 400>>

ManualClose(record_id, close_price) ==
    /\ Ready
    /\ LET res == close_position_api(records, record_id, close_price, now)
       IN  /\ records' = res[1]
           /\ resp' = [op |-> "api-close", id |-> record_id, val |-> Some(res[2])]
    /\ UNCHANGED <<now, ticks, cfg, jobs, sess>>

\* POST /api/backtest/check-auto-close
TriggerAutoClose ==
    /\ Ready
    /\ LET res == check_auto_close(records, cfg, now)
       IN  /\ records' = res[1]
           /\ resp' = [op |-> "check-auto-close", id |-> 0, val |-> res[2]]
    /\ UNCHANGED <<now, ticks, cfg, jobs, sess>>

\* the same request while the database refuses the writes to the rows in faults
TriggerAutoCloseFaults(faults) ==
    /\ Ready
    /\ LET res == check_auto_close_db(records, cfg, now, faults)
       IN  /\ records' = res[1]
           /\ resp' = [op |-> "check-auto-close", id |-> 0, val |-> res[2]]
    /\ UNCHANGED <<now, ticks, cfg, jobs, sess>>

\* GET /api/backtest/records, page after page: a caller who has the pages in
\* resp asks for the next one, with the same period and page size, until the
\* total is covered; every page is a query of its own
GetRecordsPage(period, page_size) ==
    /\ ~InSync
    /\ \/ resp = NoResponse
       \/ /\ resp.op = "records"
          /\ resp.val[1].period = period
          /\ resp.val[1].page_size = page_size
          /\ resp.id * page_size < resp.val[1].pages[resp.id].total
    /\ LET page == resp.id + 1
           before == IF resp = NoResponse THEN <<>> ELSE resp.val[1].pages
           match == {i \in Ids(records) : InPeriod(records[i], period, now)}
       IN  \E order \in Orderings(records, match) :
               resp' = [op |-> "records", id |-> page,
                        val |-> Some([period |-> period, page_size |-> page_size,
                                      pages |-> Append(before,
                                          get_records_in(records, period, None, None,
                                                         page, page_size, now, order))])]
    /\ UNCHANGED <<records, now, ticks, cfg, jobs, sess>>

\* GET /api/backtest/summary
GetSummary(period) ==
    /\ Ready
    /\ resp' = [op |-> "summary", id |-> 0, val |-> Some(get_summary(records, period, now))]
    /\ UNCHANGED <<records, now, ticks, cfg, jobs, sess>>

\* GET /api/backtest/performance
GetPerformance(period) ==
    /\ Ready
    /\ resp' = [op |-> "performance", id |-> 0,
                val |-> Some(get_performance_curve(records, period, now))]
    /\ UNCHANGED <<records, now, ticks, cfg, jobs, sess>>

\* POST /api/backtest/stop-config
SetStopConfig(stop_profit, stop_loss, max_days, enabled) ==
    /\ Ready
    /\ cfg' = set_stop_config(cfg, stop_profit, stop_loss, max_days, enabled)
    /\ resp' = [op |-> "stop-config", id |-> 0, val |-> Some(get_stop_config(cfg'))]
    /\ UNCHANGED <<records, now, ticks, jobs, sess>>

\* GET /api/backtest/stop-config
GetStopConfig ==
    /\ Ready
    /\ resp' = [op |-> "get-config", id |-> 0, val |-> Some(get_stop_config(cfg))]
    /\ UNCHANGED <<records, now, ticks, cfg, jobs, sess>>

(* ---- SchedulerService.update_stock_prices, one instance for each job ---- *)

\* a cycle that goes to its sweep when there is nothing to fetch
JobStartSweeping(j) ==
    /\ ~InSync
    /\ jobs[j].pc \in {"idle", "done"}
    /\ LET active_symbols == get_active_symbols(records)
       IN  jobs' = [jobs EXCEPT ![j] =
                       [pc |-> IF active_symbols = {} THEN "sweep" ELSE "fetch",
                        symbols |-> active_symbols, todo |-> active_symbols,
                        price_data |-> EmptyPriceData, quoted |-> EmptyPriceData,
                        sweeps |-> 0, closed |-> <<>>, chunks |-> 0]]
    /\ UNCHANGED <<records, now, ticks, cfg, resp, sess>>

\* the scheduler fires job j (start, lines 205-228): update_stock_prices runs up
\* to its first await.  A job with an instance still running is not fired again
\* (APScheduler's max_instances is 1 for each job).
JobStart(j) ==
    /\ ~InSync
    /\ jobs[j].pc \in {"idle", "done"}
    /\ LET active_symbols == get_active_symbols(records)
       IN  jobs' = [jobs EXCEPT ![j] =
                       [pc |-> IF active_symbols = {} THEN "done" ELSE "fetch",
                        symbols |-> active_symbols, todo |-> active_symbols,
                        price_data |-> EmptyPriceData, quoted |-> EmptyPriceData,
                        sweeps |-> 0, closed |-> <<>>, chunks |-> 0]]
    /\ UNCHANGED <<records, now, ticks, cfg, resp, sess>>

\* a failed fetch that throws the quotes gathered so far away
WithQuoteWiping(price_data, symbol, q) ==
    IF q.kind = "quote" /\ q.price > 0
    THEN [x \in DOMAIN price_data \cup {symbol} |->
             IF x = symbol THEN q.price ELSE price_data[x]]
    ELSE EmptyPriceData

\* lines 174-175: price_data after the quote q for symbol came back
WithQuote(price_data, symbol, q) ==
    IF q.kind = "quote" /\ q.price > 0
    THEN [x \in DOMAIN price_data \cup {symbol} |->
             IF x = symbol THEN q.price ELSE price_data[x]]
    ELSE price_data

\* what the provider answered for symbol, kept beside the job for the claims:
\* the price of a valid quote, None for a failed fetch
Answered(quoted, symbol, q) ==
    [x \in DOMAIN quoted \cup {symbol} |->
        IF x # symbol THEN quoted[x]
        ELSE IF q.kind = "quote" /\ q.price > 0 THEN Some(q.price) ELSE None]

\* update_stock_prices resumes from  await get_stock_quote(symbol)  with outcome q
JobQuote(j, symbol, q) ==
    /\ ~InSync
    /\ jobs[j].pc = "fetch"
    /\ symbol \in jobs[j].todo
    /\ LET todo == jobs[j].todo \ {symbol}
       IN  jobs' = [jobs EXCEPT ![j].price_data = WithQuote(jobs[j].price_data, symbol, q),
                                ![j].quoted = Answered(jobs[j].quoted, symbol, q),
                                ![j].todo = todo,
                                ![j].pc = IF todo = {} THEN "settled" ELSE "fetch"]
    /\ UNCHANGED <<records, now, ticks, cfg, resp, sess>>

\* the pending  await get_stock_quote(symbol)  stays pending: the HTTP requests
\* under it time out on 30 s without data, not on the length of the call, and
\* the response goes on arriving (chunks counts its pieces modulo 2)
JobWait(j) ==
    /\ ~InSync
    /\ jobs[j].pc = "fetch"
    /\ jobs' = [jobs EXCEPT ![j].chunks = 1 - jobs[j].chunks]
    /\ UNCHANGED <<records, now, ticks, cfg, resp, sess>>

\* a cycle that goes on to its sweep without writing the prices
JobUpdateSkipped(j) ==
    /\ jobs[j].pc = "settled"
    /\ DOMAIN jobs[j].price_data # {}
    /\ jobs' = [jobs EXCEPT ![j].pc = "sweep"]
    /\ UNCHANGED <<records, now, ticks, cfg, resp, sess>>

\* update_stock_prices, lines 182-186: price_data is not empty
JobUpdate(j) ==
    /\ jobs[j].pc = "settled"
    /\ DOMAIN jobs[j].price_data # {}
    /\ records' = update_prices(records, jobs[j].price_data, now)[1]
    /\ jobs' = [jobs EXCEPT ![j].pc = "sweep"]
    /\ UNCHANGED <<now, ticks, cfg, resp, sess>>

\* update_stock_prices, lines 190-191: price_data is empty
JobNoData(j) ==
    /\ jobs[j].pc = "settled"
    /\ DOMAIN jobs[j].price_data = {}
    /\ jobs' = [jobs EXCEPT ![j].pc = "done"]
    /\ UNCHANGED <<records, now, ticks, cfg, resp, sess>>

\* update_stock_prices, line 189
JobSweep(j) ==
    /\ jobs[j].pc = "sweep"
    /\ LET res == check_auto_close(records, cfg, now)
       IN  /\ records' = res[1]
           /\ jobs' = [jobs EXCEPT ![j].pc = "done",
                                    ![j].sweeps = jobs[j].sweeps + 1,
                                    ![j].closed = res[2]]
    /\ UNCHANGED <<now, ticks, cfg, resp, sess>>

(* ---- BacktestService.close_position, two calls each on a session of its own ---- *)

\* the UPDATE a session flushes at commit sets the columns the session changed
\* on the object it loaded, in the row as it is in the database by then
Flush(row, loaded, dirty) ==
    [f \in DOMAIN row |-> IF dirty[f] # loaded[f] THEN dirty[f] ELSE row[f]]

\* lines 340-362: the query, the two checks and the assignments to the loaded object
CloseLoad(c, record_id, close_price, close_reason) ==
    /\ sess[c].pc = "idle"
    /\ LET found == record_id \in Ids(records)
           refused == ~found \/ records[record_id].status = "closed"
       IN  sess' = [sess EXCEPT ![c] =
                       [pc |-> IF refused THEN "done" ELSE "dirty",
                        id |-> record_id, close_price |-> close_price,
                        close_reason |-> close_reason,
                        loaded |-> IF found THEN Some(records[record_id]) ELSE None,
                        dirty |-> IF refused THEN None
                                  ELSE Some(ClosedRow(records[record_id], close_price,
                                                      close_reason, now)),
                        ret |-> IF refused THEN Some(FALSE) ELSE None]]
    /\ UNCHANGED <<records, now, ticks, cfg, jobs, resp>>

\* lines 364-368: db.commit() and return True
CloseCommit(c) ==
    /\ sess[c].pc = "dirty"
    /\ records' = [records EXCEPT ![sess[c].id] =
                       Flush(records[sess[c].id], sess[c].loaded[1], sess[c].dirty[1])]
    /\ sess' = [sess EXCEPT ![c].pc = "done", ![c].ret = Some(TRUE)]
    /\ UNCHANGED <<now, ticks, cfg, jobs, resp>>

(* ---- BacktestService.create_recommendation, two calls each on a session of its own ---- *)

\* lines 58-74: the query for a record of the same symbol, category and day,
\* and the return of the one found
CreateCheck(c, symbol, category, entry_price) ==
    /\ sess[c].pc = "idle"
    /\ Len(records) + Cardinality({d \in Closers : sess[d].pc = "checked"}) < MaxRecords
    /\ LET existing == ExistingToday(records, symbol, category, now)
       IN  sess' = [sess EXCEPT ![c] =
                       [pc |-> IF existing # {} THEN "done" ELSE "checked",
                        symbol |-> symbol, category |-> category,
                        entry_price |-> entry_price, today |-> DateOf(now),
                        ret |-> IF existing # {} THEN Some(Min(existing)) ELSE None]]
    /\ UNCHANGED <<records, now, ticks, cfg, jobs, resp>>

\* lines 76-99: the new row, db.add, db.commit, db.refresh and the return
CreateInsert(c) ==
    /\ sess[c].pc = "checked"
    /\ records' = Append(records, NewRecord(Len(records) + 1, sess[c].symbol,
                                            sess[c].category, sess[c].entry_price, now))
    /\ sess' = [sess EXCEPT ![c].pc = "done", ![c].ret = Some(Len(records) + 1)]
    /\ UNCHANGED <<now, ticks, cfg, jobs, resp>>

\* the caller takes what the call returned
CreateReturn(c) ==
    /\ sess[c].pc = "done"
    /\ sess' = [sess EXCEPT ![c] = IdleSession]
    /\ UNCHANGED <<records, now, ticks, cfg, jobs, resp>>

(* ---- BacktestService.update_prices on a session of its own, beside a close_position ---- *)

\* lines 296-313: the query for the active rows and the assignments to the
\* loaded objects
UpdateLoad(c, price_data) ==
    /\ sess[c].pc = "idle"
    /\ sess' = [sess EXCEPT ![c] =
                   [pc |-> "updating", loaded |-> records,
                    dirty |-> update_prices(records, price_data, now)[1],
                    ret |-> None]]
    /\ UNCHANGED <<records, now, ticks, cfg, jobs, resp>>

\* lines 315-317: db.commit() flushes an UPDATE for each loaded object that
\* was assigned to, and the count is returned
UpdateCommit(c) ==
    /\ sess[c].pc = "updating"
    /\ records' = [i \in Ids(records) |->
                      IF i \in Ids(sess[c].loaded)
                      THEN Flush(records[i], sess[c].loaded[i], sess[c].dirty[i])
                      ELSE records[i]]
    /\ sess' = [sess EXCEPT ![c] =
                   [pc |-> "done", loaded |-> sess[c].loaded, dirty |-> sess[c].dirty,
                    ret |-> Some(Cardinality({i \in Ids(sess[c].loaded) :
                                     sess[c].dirty[i] # sess[c].loaded[i]}))]]
    /\ UNCHANGED <<now, ticks, cfg, jobs, resp>>

-----------------------------------------------------------------------------
(* Specifications *)

Opt(S) == {None} \cup {Some(x) : x \in S}
StocksOf(symbols, prices) ==
    UNION {[1..n -> [symbol : symbols, price : prices]] : n \in 1..MaxBatch}
PriceDatas(symbols, prices) == UNION {[S -> prices] : S \in SUBSET symbols}

\* creation alone: every symbol, category and price, on two calendar days
NextCreate ==
    \/ \E d \in Jumps : Tick(d)
    \/ Return
    \/ \E s \in Symbols, c \in Categories, p \in EntryPrices : CreateRecommendation(s, c, p)
    \/ \E st \in StocksOf(Symbols, EntryPrices), c \in Categories : BatchCreate(st, c)

SpecCreate == Init /\ [][NextCreate]_vars

\* the record store: BacktestService called with every price it accepts
NextStore ==
    \/ \E d \in Jumps : Tick(d)
    \/ Return
    \/ \E st \in StocksOf(Symbols, {Some(12)}) : BatchCreate(st, "shortterm")
    \/ \E pd \in PriceDatas(Symbols, Prices) : UpdatePrices(pd)
    \/ \E id \in 1..(MaxRecords + 1), p \in Prices, r \in Reasons : ClosePosition(id, p, r)

SpecStore == Init /\ [][NextStore]_vars

\* the auto-close policy: the endpoints, and price updates with the prices a
\* cycle passes on (positive ones)
NextPolicy ==
    \/ \E d \in Jumps : Tick(d)
    \/ Return
    \/ \E st \in StocksOf(Symbols, {Some(12)}) : BatchCreate(st, "shortterm")
    \/ \E pd \in PriceDatas(Symbols, {11, 14}) : UpdatePrices(pd)
    \/ \E id \in 1..(MaxRecords + 1), p \in Opt({0}) : ManualClose(id, p)
    \/ TriggerAutoClose
    \/ \E md \in Opt({1}), en \in Opt(BOOLEAN) : SetStopConfig(None, None, md, en)

SpecPolicy == Init /\ [][NextPolicy]_vars

\* the orchestrator: both scheduler jobs, beside creation and manual closing
NextCycle ==
    \/ Return
    \/ \E st \in StocksOf(Symbols, {Some(12)}) : BatchCreate(st, "shortterm")
    \/ \E id \in 1..MaxRecords : ManualClose(id, None)
    \/ \E en \in BOOLEAN : SetStopConfig(None, None, None, Some(en))
    \/ TriggerAutoClose
    \/ \E j \in JobIds : JobStart(j)
    \/ \E j \in JobIds, s \in Symbols, q \in Quotes : JobQuote(j, s, q)
    \/ \E j \in JobIds : JobUpdate(j)
    \/ \E j \in JobIds : JobNoData(j)
    \/ \E j \in JobIds : JobSweep(j)

SpecCycle == Init /\ [][NextCycle]_vars

\* two close_position calls that interleave
NextRace ==
    \/ \E d \in Jumps : Tick(d)
    \/ Return
    \/ \E st \in StocksOf(Symbols, {Some(12)}) : BatchCreate(st, "shortterm")
    \/ \E c \in Closers, id \in 1..(MaxRecords + 1), p \in Prices, r \in Reasons :
           CloseLoad(c, id, p, r)
    \/ \E c \in Closers : CloseCommit(c)

SpecRace == Init /\ [][NextRace]_vars

\* two create_recommendation calls that interleave
NextDedup ==
    \/ \E d \in Jumps : Tick(d)
    \/ \E c \in Closers, s \in Symbols, g \in Categories : CreateCheck(c, s, g, 12)
    \/ \E c \in Closers : CreateInsert(c)
    \/ \E c \in Closers : CreateReturn(c)

SpecDedup == Init /\ [][NextDedup]_vars

\* an update_prices call and close_position calls that interleave
NextUpdateRace ==
    \/ \E d \in Jumps : Tick(d)
    \/ Return
    \/ \E st \in StocksOf(Symbols, {Some(12)}) : BatchCreate(st, "shortterm")
    \/ \E c \in Closers, pd \in PriceDatas(Symbols, {11}) : UpdateLoad(c, pd)
    \/ \E c \in Closers : UpdateCommit(c)
    \/ \E c \in Closers, id \in 1..MaxRecords : CloseLoad(c, id, 14, "manual")
    \/ \E c \in Closers : CloseCommit(c)

SpecUpdateRace == Init /\ [][NextUpdateRace]_vars

\* recommending again what was closed: creates of one category and manual
\* closes, on two calendar days
NextReentry ==
    \/ \E d \in Jumps : Tick(d)
    \/ Return
    \/ \E s \in Symbols : CreateRecommendation(s, "shortterm", Some(12))
    \/ \E id \in 1..MaxRecords : ManualClose(id, None)

SpecReentry == Init /\ [][NextReentry]_vars

\* stores the program builds on one day: the recommendations of the two
\* categories recorded at time 0, then one price update at time t
StoreAfter(st1, st2, price_data, t) ==
    LET first == batch_create_recommendations(<<>>, st1, "shortterm", 0)[1]
        second == batch_create_recommendations(first, st2, "trend", 0)[1]
    IN  update_prices(second, price_data, t)[1]

SweepBatches == {<<>>} \cup StocksOf(Symbols, {Some(12)})

\* a store of the first category and of the categories in batches2, and a
\* configuration with either expiry limit
InitStores(batches2) ==
    /\ \E st1 \in SweepBatches, st2 \in batches2,
          pd \in PriceDatas(Symbols, {11, 14}), t \in {0, TicksPerDay} :
          /\ records = StoreAfter(st1, st2, pd, t)
          /\ now = t
    /\ ticks = 0
    /\ \E md \in Opt({1}) : cfg = set_stop_config(DefaultConfig, None, None, md, None)
    /\ jobs = [j \in JobIds |-> IdleJob]
    /\ resp = NoResponse
    /\ sess = [c \in Closers |-> IdleSession]

\* the sweep on its own, over stores of up to twice the page size
InitSweep == InitStores(SweepBatches)

NextSweep ==
    \/ Return
    \/ TriggerAutoClose
    \/ \E en \in BOOLEAN : SetStopConfig(None, None, None, Some(en))

SpecSweep == InitSweep /\ [][NextSweep]_vars

\* the two ways a record is closed, over stores whose prices have risen,
\* fallen or stayed, on the day of entry or the day after, with an expiry
\* limit of one day
InitReasons ==
    /\ \E st \in SweepBatches, pd \in PriceDatas(Symbols, {11, 12, 14}),
          t \in {0, TicksPerDay} :
          /\ records = StoreAfter(st, <<>>, pd, t)
          /\ now = t
    /\ ticks = 0
    /\ cfg = set_stop_config(DefaultConfig, None, None, Some(1), None)
    /\ jobs = [j \in JobIds |-> IdleJob]
    /\ resp = NoResponse
    /\ sess = [c \in Closers |-> IdleSession]

NextReasons ==
    \/ Return
    \/ \E id \in 1..MaxRecords : ManualClose(id, None)
    \/ TriggerAutoClose
    \/ \E en \in BOOLEAN : SetStopConfig(None, None, None, Some(en))

SpecReasons == InitReasons /\ [][NextReasons]_vars

\* the configuration endpoints, with values that include 0 and false
StopProfits == {0, 2000}
StopLosses == {0, -500}
MaxDays == {0, 10}

NextConfig ==
    \/ Return
    \/ GetStopConfig
    \/ \E sp \in Opt(StopProfits), sl \in Opt(StopLosses), md \in Opt(MaxDays),
          en \in Opt(BOOLEAN) : SetStopConfig(sp, sl, md, en)

SpecConfig == Init /\ [][NextConfig]_vars

\* the sweep and the price update over stores within one page, the database
\* refusing some writes
InitFault == InitStores({<<>>})

NextFault ==
    \/ Return
    \/ \E faults \in SUBSET (1..MaxRecords) : TriggerAutoCloseFaults(faults)
    \/ \E pd \in PriceDatas(Symbols, {11, 14}) : UpdatePrices(pd)
    \/ \E pd \in PriceDatas(Symbols, {11, 14}), faults \in SUBSET (1..MaxRecords) :
          UpdatePricesFaults(pd, faults)

SpecFault == InitFault /\ [][NextFault]_vars

\* the periods a report is asked for
Periods == {"7d", "30d", "all"}
\* when the second batch of a store is created, and how long after it the
\* reports are asked for
ReportDays == {TicksPerDay, 2 * TicksPerDay}
ReportDelays == {0, 7 * TicksPerDay, 10 * TicksPerDay, 366 * TicksPerDay}

\* the table as the session of the next call reads it, row by row
StoredRows(recs) == [i \in 1..Len(recs) |-> recs[i]]

\* a store of two entry days: a batch, a price update and a sweep on the first
\* day, a batch and a price update on a later one
ReportStore(st1, pd1, st2, t2, pd2) ==
    LET created == batch_create_recommendations(<<>>, st1, "shortterm", 0)[1]
        priced == update_prices(created, pd1, 0)[1]
        swept == check_auto_close(priced, DefaultConfig, 0)[1]
        second == batch_create_recommendations(StoredRows(swept), st2, "shortterm", t2)[1]
    IN  update_prices(second, pd2, t2)[1]

\* two records entered at 100 and closed by hand at 110 and 98 on the first
\* day, one entered at 100 and priced at 105 on the second
ExampleStore ==
    LET both == <<[symbol |-> "600000", price |-> Some(100)],
                  [symbol |-> "000001", price |-> Some(100)]>>
        created == batch_create_recommendations(<<>>, both, "shortterm", 0)[1]
        first == close_position(created, 1, 110, "manual", 0)[1]
        closed == close_position(first, 2, 98, "manual", 0)[1]
        second == batch_create_recommendations(closed, SubSeq(both, 1, 1), "shortterm",
                                               TicksPerDay)[1]
    IN  update_prices(second, [x \in {"600000"} |-> 105], TicksPerDay)[1]

InitReport ==
    /\ \/ \E st1 \in SweepBatches, st2 \in SweepBatches,
             pd1 \in PriceDatas(Symbols, {11, 14}), pd2 \in PriceDatas(Symbols, {11, 14}),
             t2 \in ReportDays, later \in ReportDelays :
             /\ records = ReportStore(st1, pd1, st2, t2, pd2)
             /\ now = t2 + later
       \/ /\ records = ExampleStore
          /\ now = TicksPerDay
    /\ ticks = 0
    /\ cfg = DefaultConfig
    /\ jobs = [j \in JobIds |-> IdleJob]
    /\ resp = NoResponse
    /\ sess = [c \in Closers |-> IdleSession]

\* the reports over such stores
NextReport ==
    \/ Return
    \/ \E period \in Periods : GetSummary(period)
    \/ \E period \in Periods : GetPerformance(period)

SpecReport == InitReport /\ [][NextReport]_vars

\* the page sizes a caller walks the records with
PageSizes == {1, 2}

\* a store of two batches, the second on a later day or in the same instant
PagedStore(st1, st2, t2) ==
    LET first == batch_create_recommendations(<<>>, st1, "shortterm", 0)[1]
    IN  batch_create_recommendations(first, st2, "trend", t2)[1]

InitPages ==
    /\ \E st1 \in SweepBatches, st2 \in SweepBatches, t2 \in {0} \cup ReportDays,
          later \in ReportDelays :
          /\ records = PagedStore(st1, st2, t2)
          /\ now = t2 + later
    /\ ticks = 0
    /\ cfg = DefaultConfig
    /\ jobs = [j \in JobIds |-> IdleJob]
    /\ resp = NoResponse
    /\ sess = [c \in Closers |-> IdleSession]

\* the records read page by page, the store unchanged meanwhile
NextPages ==
    \/ Return
    \/ \E period \in Periods, page_size \in PageSizes : GetRecordsPage(period, page_size)

SpecPages == InitPages /\ [][NextPages]_vars

\* a step of the coroutine of job j, or of the call it awaits, before its sweep
JobUntilSweep(j) ==
    \/ \E s \in Symbols, q \in Quotes : JobQuote(j, s, q)
    \/ JobWait(j)
    \/ JobUpdate(j)
    \/ JobNoData(j)

\* any step of job j once it has started
JobRun(j) ==
    \/ JobUntilSweep(j)
    \/ JobSweep(j)

\* the job whose cycles are followed to their end
HangJobs == {"update_prices_trading_hours"}

\* the cycles of one job over stores within one page, the provider slow to answer
NextHang ==
    \/ \E j \in HangJobs : JobStart(j)
    \/ \E j \in HangJobs : JobRun(j)

\* the event loop runs every coroutine that can go on and delivers every
\* network event, so that each step of a job is weakly fair (for the sweep,
\* the one step a job at its sweep can take, this is: the job does not stay at
\* its sweep); nothing in the cycle bounds the time a call stays pending
SpecHang ==
    /\ InitFault
    /\ [][NextHang]_vars
    /\ \A j \in HangJobs : WF_vars(JobUntilSweep(j))
    /\ \A j \in HangJobs : []<>(jobs[j].pc # "sweep")

\* a step of the coroutine of job j after its start in which nothing stays
\* pending: a quote call comes back, with a quote or without, and the cycle
\* goes on to its update or to its end
JobAnswered(j) ==
    \/ \E s \in Symbols, q \in Quotes : JobQuote(j, s, q)
    \/ JobUpdate(j)
    \/ JobNoData(j)

\* the periodic cycle alone, every call of it coming back
NextExpiry ==
    \/ \E j \in HangJobs : JobStart(j)
    \/ \E j \in HangJobs : JobAnswered(j)
    \/ \E j \in HangJobs : JobSweep(j)

\* the scheduler fires the job again and again, and each cycle runs to its
\* end: every quote call is answered, one way or the other, and the job does
\* not stay at its sweep
SpecExpiry ==
    /\ InitFault
    /\ [][NextExpiry]_vars
    /\ \A j \in HangJobs : WF_vars(JobStart(j))
    /\ \A j \in HangJobs : WF_vars(JobAnswered(j))
    /\ \A j \in HangJobs : []<>(jobs[j].pc # "sweep")

-----------------------------------------------------------------------------
(* Claims *)

\* a call returns in this step
Returns(op) == resp = NoResponse /\ resp'.op = op

CloseFields(r) == <<r.status, r.close_price, r.close_date, r.close_reason>>

\* C1 (terminal state): in every step, a record that is closed keeps its
\* status, close_price, close_date and close_reason, whatever update_prices or
\* close_position call the step is, and a close_position call on a record that
\* is closed returns False.
C1_TerminalState ==
    [][/\ \A i \in Ids(records) :
             records[i].status = "closed" => CloseFields(records'[i]) = CloseFields(records[i])
       /\ (Returns("close") /\ resp'.id \in Ids(records)
              /\ records[resp'.id].status = "closed") => resp'.val = Some(FALSE)]_vars

\* C1 witness: a close_position call at a later time on a closed record has
\* returned False, and update_prices has since then touched another record of
\* the same symbol.
C1_Witness ==
    /\ resp.op = "close" /\ resp.val = Some(FALSE)
    /\ resp.id \in Ids(records)
    /\ records[resp.id].status = "closed"
    /\ records[resp.id].close_date[1] < now
    /\ \E k \in Ids(records) :
          /\ records[k].symbol = records[resp.id].symbol
          /\ records[k].status = "active"
          /\ records[k].price_updated_at[1] > records[resp.id].close_date[1]

\* C2 (concurrent close race), as claimed: when two interleaved close_position
\* calls on one record, active when the first of them loaded it, have both
\* returned, exactly one returned True and the record's close_price and
\* close_reason are that call's.
C2_ExactlyOneCloseWins ==
    (/\ \A c \in Closers : sess[c].pc = "done" /\ sess[c].loaded # None
     /\ sess["c1"].id = sess["c2"].id)
    => \E w \in Closers :
          /\ sess[w].ret = Some(TRUE)
          /\ \A c \in Closers \ {w} : sess[c].ret = Some(FALSE)
          /\ records[sess[w].id].close_price = Some(sess[w].close_price)
          /\ records[sess[w].id].close_reason = Some(sess[w].close_reason)

DedupKey(r) == <<r.symbol, r.category, DateOf(r.entry_date)>>

CloseFieldsInv ==
    \A i \in Ids(records) :
        LET r == records[i]
        IN  /\ r.status \in {"active", "closed"}
            /\ r.status = "closed" =>
                   r.close_price # None /\ r.close_date # None /\ r.close_reason # None
            /\ r.status = "active" =>
                   r.close_price = None /\ r.close_date = None /\ r.close_reason = None

\* C4 (close fields): a closed record has close_price, close_date and
\* close_reason, an active record has none of them, and no step takes a record
\* from closed to active.
C4_CloseFields ==
    /\ []CloseFieldsInv
    /\ [][\A i \in Ids(records) :
             records[i].status = "closed" => records'[i].status = "closed"]_vars

\* C4 witness: a closed record beside an active one
C4_Witness ==
    \E i, k \in Ids(records) :
        /\ records[i].status = "closed" /\ records[i].close_reason = Some("profit")
        /\ records[k].status = "active"

\* the price the valuation refers to
ReferencePrice(r) ==
    IF r.status = "closed" THEN r.close_price[1]
    ELSE IF r.current_price # None THEN r.current_price[1]
    ELSE r.entry_price

\* C5 (valuation), as claimed: every stored profit_percent is
\* round((reference_price - entry_price) / entry_price * 100, 2).
C5_ValuationInv ==
    \A i \in Ids(records) :
        records[i].entry_price > 0 =>
            records[i].profit_percent
                = ProfitPercent(ReferencePrice(records[i]), records[i].entry_price)

\* the rules of the policy on a stored record, in the order of the claim
ProfitRule(r, c) == r.profit_percent >= c.stop_profit_percent
LossRule(r, c) == r.profit_percent <= c.stop_loss_percent
ExpiryRule(r, c) == r.holding_days >= c.max_holding_days

FirstMatch(r, c) ==
    IF ProfitRule(r, c) THEN Some("profit")
    ELSE IF LossRule(r, c) THEN Some("loss")
    ELSE IF ExpiryRule(r, c) THEN Some("expired")
    ELSE None

\* the sweep has dealt with row r, leaving r2: closed for the first rule that
\* matches, left as it is when none does or when the policy is switched off
Evaluated(r, r2, c) ==
    IF r.status = "active" /\ c.auto_close_enabled /\ FirstMatch(r, c) # None
    THEN r2.status = "closed" /\ r2.close_reason = FirstMatch(r, c)
    ELSE r2 = r

\* C6 (policy priority): a sweep closes each active record for which a rule
\* matches with the reason of the first rule that matches, in the order profit,
\* loss, expired, and leaves every other record as it is.
C6_PolicyPriority ==
    [][Returns("check-auto-close") =>
          \A i \in Ids(records) : Evaluated(records[i], records'[i], cfg)]_vars

\* C6 witness: a sweep has closed, with reason profit, a record that matched
\* the expiry rule as well (its holding days, as of its last price update,
\* had reached max_holding_days).
C6_Witness ==
    /\ resp.op = "check-auto-close"
    /\ \E k \in 1..Len(resp.val) :
          LET r == records[resp.val[k].id]
          IN  /\ resp.val[k].reason = "profit"
              /\ r.close_reason = Some("profit")
              /\ WholeDays(r.entry_date, r.price_updated_at[1]) >= cfg.max_holding_days

Valid(j) == {s \in DOMAIN jobs[j].quoted : jobs[j].quoted[s] # None}
Failed(j) == {s \in DOMAIN jobs[j].quoted : jobs[j].quoted[s] = None}

\* C7 (step ordering): when the sweep of a cycle is about to read the store,
\* every quote fetch of the cycle has settled and the cycle's price write is
\* in the store: each active record of a quoted symbol holds the quoted price;
\* and a cycle's sweep runs from that point alone.
C7_SweepAfterUpdates ==
    /\ [](\A j \in JobIds : jobs[j].pc = "sweep" =>
             /\ jobs[j].todo = {}
             /\ DOMAIN jobs[j].quoted = jobs[j].symbols
             /\ \A i \in Ids(records) :
                   (records[i].status = "active" /\ records[i].symbol \in Valid(j)) =>
                       /\ records[i].current_price = jobs[j].quoted[records[i].symbol]
                       /\ records[i].price_updated_at = Some(now))
    /\ [][\A j \in JobIds :
             jobs'[j].sweeps > jobs[j].sweeps => jobs[j].pc = "sweep"]_vars

\* C7 witness: a cycle over two symbols has written its prices and swept
C7_Witness ==
    \E j \in JobIds :
        /\ jobs[j].pc = "done" /\ jobs[j].sweeps = 1
        /\ Valid(j) = Symbols
        /\ \E i \in Ids(records) : records[i].status = "active"
                                      /\ records[i].current_price = Some(11)

\* C8 (sweep once per cycle), as claimed: a cycle that found an active symbol
\* has invoked check_auto_close exactly once when it ends.
C8_SweepOncePerCycle ==
    \A j \in JobIds :
        (jobs[j].pc = "done" /\ jobs[j].symbols # {}) => jobs[j].sweeps = 1

Running(j) == jobs[j].pc \notin {"idle", "done"}

\* C9 (cycles never overlap), as claimed: at most one run of
\* update_stock_prices is in progress.
C9_NoOverlap == Cardinality({j \in JobIds : Running(j)}) <= 1

\* C10 (quote-failure isolation): in a cycle with a failed fetch and a valid
\* quote, the cycle goes on to its price update and then to its sweep; the
\* update gives every active record of a validly quoted symbol the quoted
\* price and the profit that follows from it, and leaves the current_price of
\* the failed symbols' records as it was; the sweep evaluates every record.
C10_QuoteFailureIsolation ==
    [][\A j \in JobIds :
         (Failed(j) # {} /\ Valid(j) # {}) =>
            /\ jobs[j].pc = "settled" =>
                  /\ jobs'[j].pc = "sweep"
                  /\ \A i \in Ids(records) :
                        /\ (records[i].status = "active" /\ records[i].symbol \in Valid(j)) =>
                              /\ records'[i].current_price = jobs[j].quoted[records[i].symbol]
                              /\ records'[i].profit_percent
                                    = ProfitPercent(jobs[j].quoted[records[i].symbol][1],
                                                    records[i].entry_price)
                        /\ records[i].symbol \in Failed(j) =>
                              records'[i].current_price = records[i].current_price
            /\ jobs[j].pc = "sweep" =>
                  /\ jobs'[j].pc = "done" /\ jobs'[j].sweeps = 1
                  /\ \A i \in Ids(records) : Evaluated(records[i], records'[i], cfg)]_vars

\* C10 witness: a cycle has ended in which one symbol's fetch failed and the
\* other symbol's record was updated to the quoted price and closed by the
\* sweep, the failed symbol's record being still active at its entry price.
C10_Witness ==
    \E j \in JobIds :
        /\ jobs[j].pc = "done" /\ jobs[j].sweeps = 1
        /\ Failed(j) # {} /\ Valid(j) # {}
        /\ \E i, k \in Ids(records) :
              /\ records[i].symbol \in Valid(j)
              /\ records[i].status = "closed"
              /\ records[i].close_price = jobs[j].quoted[records[i].symbol]
              /\ Len(jobs[j].closed) = 1 /\ jobs[j].closed[1].id = i
              /\ records[k].symbol \in Failed(j)
              /\ records[k].status = "active"
              /\ records[k].current_price = Some(records[k].entry_price)

\* C11 (sweep completeness), as claimed: when check_auto_close has returned
\* with the policy enabled, no record is left active whose stored
\* profit_percent or holding_days satisfies one of the three rules, however
\* many active records the store holds.
C11_SweepCompleteness ==
    (resp.op = "check-auto-close" /\ cfg.auto_close_enabled) =>
        \A i \in Ids(records) :
            records[i].status = "active" => FirstMatch(records[i], cfg) = None

\* the active rows of the store that match a rule of configuration c
Matching(recs, c) ==
    {i \in Ids(recs) : recs[i].status = "active" /\ FirstMatch(recs[i], c) # None}

\* C12 (close-failure isolation): in a sweep during which close_position
\* fails for some matching records, every other matching record is closed
\* with its reason, the failed ones and the rest stay as they were, and the
\* list returned holds exactly the records closed, each with its reason.
C12_CloseFailureIsolation ==
    [][\A faults \in SUBSET (1..MaxRecords) :
         (TriggerAutoCloseFaults(faults) /\ cfg.auto_close_enabled) =>
            LET done == Matching(records, cfg) \ faults
                list == resp'.val
            IN  /\ \A i \in done : /\ records'[i].status = "closed"
                                    /\ records'[i].close_reason = FirstMatch(records[i], cfg)
                /\ \A i \in Ids(records) \ done : records'[i] = records[i]
                /\ Len(list) = Cardinality(done)
                /\ {list[k].id : k \in 1..Len(list)} = done
                /\ \A k \in 1..Len(list) :
                      Some(list[k].reason) = FirstMatch(records[list[k].id], cfg)]_vars

\* C12 witness: a sweep has returned one record, closed, while another record
\* that matches a rule is still active, its close having failed
C12_Witness ==
    /\ resp.op = "check-auto-close"
    /\ Len(resp.val) = 1
    /\ records[resp.val[1].id].status = "closed"
    /\ cfg.auto_close_enabled
    /\ Matching(records, cfg) # {}

AutoReasons == {Some("profit"), Some("loss"), Some("expired")}

\* C13 (disabled policy): while auto_close_enabled is false, a sweep, from a
\* scheduled cycle or from the endpoint, returns an empty list and changes no
\* record, and no step gives a record the close_reason profit, loss or expired.
C13_DisabledPolicy ==
    [][~cfg.auto_close_enabled =>
          /\ Returns("check-auto-close") => (resp'.val = <<>> /\ records' = records)
          /\ \A j \in JobIds :
                jobs[j].pc = "sweep" => (jobs'[j].closed = <<>> /\ records' = records)
          /\ \A i \in Ids(records) :
                records'[i].close_reason \in AutoReasons
                    => records'[i].close_reason = records[i].close_reason]_vars

\* C13 witness: with the policy switched off, a cycle has swept and left
\* active a record whose loss matches the rule, and the manual close of
\* another record has just succeeded
C13_Witness ==
    /\ ~cfg.auto_close_enabled
    /\ \E j \in JobIds : jobs[j].pc = "done" /\ jobs[j].sweeps = 1 /\ jobs[j].closed = <<>>
    /\ \E i, k \in Ids(records) :
          /\ records[i].status = "active" /\ LossRule(records[i], cfg)
          /\ resp.op = "api-close" /\ resp.val = Some(200) /\ resp.id = k
          /\ records[k].close_reason = Some("manual")

\* C14 (invalid input on create), as claimed: every stored record has an
\* entry_price above 0, a creation with entry_price <= 0 having been refused.
C14_EntryPricePositive == \A i \in Ids(records) : records[i].entry_price > 0

\* C15 (close error outcomes), as claimed: a manual close of an id that names
\* no record, or of a record already closed, fails and changes no record, and
\* the outcome for the missing id differs from the outcome the same request
\* has on a closed record.
C15_CloseErrorOutcomes ==
    [][\A id \in 1..(MaxRecords + 1), p \in Opt({0}) :
         ManualClose(id, p) =>
            /\ (id \notin Ids(records) \/ records[id].status = "closed") =>
                  (records' = records /\ resp'.val # Some(200))
            /\ id \notin Ids(records) =>
                  \A k \in Ids(records) :
                      records[k].status = "closed" =>
                          resp'.val # Some(close_position_api(records, k, p, now)[2])]_vars

HasKey(recs, symbol, category, day) ==
    \E i \in Ids(recs) : DedupKey(recs[i]) = <<symbol, category, day>>

\* item k of a batch resolves to a record: it carries a price, or a record of
\* its symbol, category and day is there when its turn comes
Resolves(recs, stocks, category, k, day) ==
    \/ stocks[k].price # None
    \/ HasKey(recs, stocks[k].symbol, category, day)
    \/ \E j \in 1..(k - 1) : stocks[j].symbol = stocks[k].symbol /\ stocks[j].price # None

\* C16 (batch isolation): batch_create_recommendations creates or finds the
\* record of every item that can be stored, also of the items that follow an
\* item whose create failed, and returns the number of items that resolved
\* to a record, new or existing.
C16_BatchIsolation ==
    [][\A st \in StocksOf(Symbols, EntryPrices), c \in Categories :
         BatchCreate(st, c) =>
            /\ \A k \in 1..Len(st) :
                  st[k].price # None => HasKey(records', st[k].symbol, c, DateOf(now))
            /\ resp'.val = Some(Cardinality({k \in 1..Len(st) :
                                    Resolves(records, st, c, k, DateOf(now))}))]_vars

\* C16 witness: a batch of two items has returned 1, the one record of the
\* store being the one it created: one item failed, the other was stored
C16_Witness ==
    /\ resp.op = "batch" /\ resp.id = 2 /\ resp.val = Some(1)
    /\ Len(records) = 1
    /\ records[1].entry_date = now

\* the columns update_prices is not to touch
FrameOfUpdate(r) ==
    <<r.id, r.symbol, r.category, r.entry_price, r.entry_date, r.status,
      r.close_price, r.close_date, r.close_reason>>

C18_AutoClosePrice ==
    [][Returns("check-auto-close") =>
          \A i \in Ids(records) :
              (records[i].status = "active" /\ records'[i].status = "closed") =>
                  /\ records'[i].close_price
                        = (IF records[i].current_price # None
                           THEN records[i].current_price
                           ELSE Some(records[i].entry_price))
                  /\ records'[i].profit_percent = records[i].profit_percent]_vars

\* C18 witness: the sweep has closed at 14 a record entered at 12 and
\* reports the profit of 16.67 % that the record stores
C18_Witness ==
    /\ resp.op = "check-auto-close"
    /\ \E k \in 1..Len(resp.val) :
          LET r == records[resp.val[k].id]
          IN  /\ r.status = "closed"
              /\ r.entry_price = 12 /\ r.close_price = Some(14)
              /\ r.profit_percent = 1667 /\ resp.val[k].profit_percent = 1667
              /\ r.close_date[1] > r.price_updated_at[1]

\* C19 (manual close path): a manual close of an active record succeeds and
\* closes it with reason manual, at the close price of the request when it
\* carries one, else at the current_price the record holds (its entry_price
\* when it holds none).
C19_ManualClosePath ==
    [][\A id \in 1..(MaxRecords + 1), p \in Opt({0}) :
         (ManualClose(id, p) /\ id \in Ids(records) /\ records[id].status = "active") =>
            /\ resp'.val = Some(200)
            /\ records'[id].status = "closed"
            /\ records'[id].close_reason = Some("manual")
            /\ records'[id].close_price
                  = (IF p # None THEN p
                     ELSE IF records[id].current_price # None
                          THEN records[id].current_price
                          ELSE Some(records[id].entry_price))]_vars

\* C19 witness: a manual close without a price has closed at 14, the price
\* of the last update, a record entered at 12
C19_Witness ==
    /\ resp.op = "api-close" /\ resp.val = Some(200)
    /\ resp.id \in Ids(records)
    /\ records[resp.id].entry_price = 12
    /\ records[resp.id].close_price = Some(14)
    /\ records[resp.id].close_reason = Some("manual")

\* C20 (partial configuration update): the configuration starts as 15.0 %,
\* -8.0 %, 30 days, enabled; a set_stop_config call gives each field it
\* supplies the value supplied, 0 and false included, leaves the fields it
\* does not supply, and reports the result; nothing else changes the
\* configuration, and get_stop_config reports it as it is.
C20_PartialConfigUpdate ==
    /\ cfg = [stop_profit_percent |-> 1500, stop_loss_percent |-> -800,
              max_holding_days |-> 30, auto_close_enabled |-> TRUE]
    /\ [][/\ \A sp \in Opt(StopProfits), sl \in Opt(StopLosses), md \in Opt(MaxDays),
               en \in Opt(BOOLEAN) :
               SetStopConfig(sp, sl, md, en) =>
                  /\ cfg'.stop_profit_percent
                        = (IF sp = None THEN cfg.stop_profit_percent ELSE sp[1])
                  /\ cfg'.stop_loss_percent
                        = (IF sl = None THEN cfg.stop_loss_percent ELSE sl[1])
                  /\ cfg'.max_holding_days
                        = (IF md = None THEN cfg.max_holding_days ELSE md[1])
                  /\ cfg'.auto_close_enabled
                        = (IF en = None THEN cfg.auto_close_enabled ELSE en[1])
                  /\ resp'.val = Some(cfg')
          /\ Returns("get-config") => (resp'.val = Some(cfg) /\ cfg' = cfg)
          /\ cfg' # cfg => Returns("stop-config")]_vars

\* C20 witness: get_stop_config reports a stop-profit of 0 and a policy
\* switched off, both supplied, beside the 30 days no call has supplied
C20_Witness ==
    /\ resp.op = "get-config"
    /\ resp.val = Some(cfg)
    /\ cfg.stop_profit_percent = 0
    /\ ~cfg.auto_close_enabled
    /\ cfg.max_holding_days = 30
    /\ cfg.stop_loss_percent = -500

\* C21 (holding-days validity): in every sweep, the holding_days of each
\* active record the sweep evaluates is the number of whole days from its
\* entry_date to the time of the sweep, whether or not a price update has
\* reached the record; and the holding_days of a closed record is the number
\* of whole days from its entry_date to its close_date.
C21_HoldingDaysValidity ==
    /\ [][(Returns("check-auto-close") /\ cfg.auto_close_enabled) =>
             \A i \in Ids(records) :
                 records[i].status = "active" =>
                     records[i].holding_days = WholeDays(records[i].entry_date, now)]_vars
    /\ [](\A i \in Ids(records) :
             records[i].status = "closed" =>
                 records[i].holding_days
                     = WholeDays(records[i].entry_date, records[i].close_date[1]))

\* C22 (persistence-failure isolation in the price update): when the database
\* refuses the write of some records' new price during an update_prices call,
\* those records keep their stored values, and every other active record whose
\* symbol has a price in the call gets current_price, price_updated_at,
\* profit_percent and holding_days updated and committed.
C22_UpdateFailureIsolation ==
    [][\A pd \in PriceDatas(Symbols, {11, 14}), faults \in SUBSET (1..MaxRecords) :
          UpdatePricesFaults(pd, faults) =>
              \A i \in Ids(records) :
                  IF i \in faults THEN records'[i] = records[i]
                  ELSE records'[i] = UpdatedRow(records[i], pd, now)]_vars

\* C23 (cycle termination under a hanging provider): a cycle that has begun
\* to fetch quotes eventually ends, whatever the provider does: a call that
\* hangs counts as a failed fetch for its symbol, the remaining symbols are
\* fetched, the prices are written and the sweep runs.
C23_CycleTermination ==
    \A j \in HangJobs : (jobs[j].pc = "fetch") ~> (jobs[j].pc = "done")

\* C24 (an empty cycle is a no-op): a cycle that starts while no record is
\* active ends in that step: it awaits no quote, writes no price, runs no
\* sweep and leaves the records as they are.
C24_EmptyCycleNoOp ==
    [][\A j \in JobIds :
          (JobStart(j) /\ get_active_symbols(records) = {}) =>
              /\ jobs'[j].pc = "done"
              /\ jobs'[j].todo = {}
              /\ DOMAIN jobs'[j].quoted = {}
              /\ DOMAIN jobs'[j].price_data = {}
              /\ jobs'[j].sweeps = 0
              /\ records' = records]_vars

\* C24 witness: a job has ended a cycle with no symbol, quote or sweep over a
\* store whose records are all closed
C24_Witness ==
    \E j \in JobIds :
        /\ jobs[j].pc = "done"
        /\ jobs[j].symbols = {}
        /\ DOMAIN jobs[j].quoted = {}
        /\ jobs[j].sweeps = 0
        /\ Len(records) = MaxRecords
        /\ \A i \in Ids(records) : records[i].status = "closed"

Identity(r) == <<r.id, r.symbol, r.category, r.entry_price, r.entry_date>>

\* C25 (append-only history): no step of create, update_prices, close_position
\* or the sweep removes a record or changes the id, symbol, category,
\* entry_price or entry_date of a record, and no two records have the same id.
C25_AppendOnlyHistory ==
    /\ [][/\ Len(records') >= Len(records)
          /\ \A i \in Ids(records) : Identity(records'[i]) = Identity(records[i])]_vars
    /\ [](\A i, k \in Ids(records) : records[i].id = records[k].id => i = k)

\* C25 witness: a day after two records were created, one has been closed by
\* the sweep at a price an update wrote and the other closed by hand, and both
\* have the identity they were created with
C25_Witness ==
    /\ Len(records) = 2
    /\ now = TicksPerDay
    /\ \E i, k \in Ids(records) :
          /\ records[i].close_reason = Some("profit")
          /\ records[k].close_reason = Some("manual")
          /\ records[k].current_price = Some(11)
    /\ \A i \in Ids(records) :
          /\ records[i].id = i
          /\ records[i].entry_price = 12
          /\ records[i].entry_date = 0
          /\ records[i].category = "shortterm"
    /\ records[1].symbol # records[2].symbol

SummaryFields ==
    {"total_recommendations", "active_count", "closed_count", "win_rate", "avg_return",
     "total_return", "avg_holding_days", "best_profit", "worst_loss"}

\* C26 (empty summary): a get_summary call for a period into which no
\* record's entry_date falls returns every summary field (total_recommendations,
\* active_count, closed_count, win_rate, avg_return, total_return,
\* avg_holding_days, best_profit, worst_loss), each of them 0.
C26_EmptySummary ==
    \A period \in Periods :
        (/\ resp.op = "summary"
         /\ resp.val[1].period = period
         /\ \A i \in Ids(records) : ~InPeriod(records[i], period, now)) =>
            \A f \in SummaryFields : f \in DOMAIN resp.val[1] /\ resp.val[1][f] = 0

\* a summary of at least one record has been returned
SummaryOfSome == resp.op = "summary" /\ resp.val[1].total_recommendations > 0

\* x is num / den rounded to a nearest integer (den > 0)
Nearest(x, num, den) == 2 * (x * den - num) <= den /\ 2 * (num - x * den) <= den

\* C27 as stated (summary total_return): in every summary of at least one
\* record, the total_return returned is the avg_return returned times the
\* total_recommendations returned.
C27_TotalReturnOfReturned ==
    SummaryOfSome =>
        resp.val[1].total_return = resp.val[1].avg_return * resp.val[1].total_recommendations

\* C27 amended: in every summary of at least one record, the total_return
\* returned is the sum of the profit_percent of the matching records, which is
\* their unrounded mean times their number, and the avg_return returned is that
\* mean rounded to two decimals; the product of the returned values is off
\* from total_return by at most 0.005 for each record.
C27_TotalReturn ==
    SummaryOfSome =>
        LET s == resp.val[1]
            match == {i \in Ids(records) : InPeriod(records[i], s.period, now)}
            sum == SumOver([i \in match |-> records[i].profit_percent], match)
        IN  /\ s.total_recommendations = Cardinality(match)
            /\ s.total_return = sum
            /\ Nearest(s.avg_return, sum, s.total_recommendations)
            /\ 2 * (s.avg_return * s.total_recommendations - s.total_return)
                  <= s.total_recommendations
            /\ 2 * (s.total_return - s.avg_return * s.total_recommendations)
                  <= s.total_recommendations

\* C27 witness: a summary of two records whose profits sum to 16.67 %, which
\* no avg_return of two decimals times 2 gives
C27_Witness ==
    /\ SummaryOfSome
    /\ resp.val[1].total_recommendations = 2
    /\ resp.val[1].total_return = 1667
    /\ resp.val[1].avg_return * 2 # 1667

\* the records a returned summary is about, and the wins among them
SummaryMatch == {i \in Ids(records) : InPeriod(records[i], resp.val[1].period, now)}
SummaryWins == {i \in SummaryMatch : records[i].profit_percent > 0}

\* C28 as stated (summary win_rate): in every summary of at least one record,
\* win_rate is exactly 100 times the number of matching records with
\* profit_percent > 0 divided by total_recommendations, and active_count plus
\* closed_count is total_recommendations.
C28_WinRateExact ==
    SummaryOfSome =>
        LET s == resp.val[1]
        IN  /\ s.win_rate * s.total_recommendations = 1000 * Cardinality(SummaryWins)
            /\ s.active_count + s.closed_count = s.total_recommendations

\* C28 amended: in every summary of at least one record, win_rate is 100 times
\* the number of matching records, active and closed alike, with
\* profit_percent > 0, divided by total_recommendations and rounded to one
\* decimal; a record with profit_percent 0 counts in total_recommendations and
\* not as a win; active_count is the number of matching active records and
\* active_count plus closed_count is total_recommendations.
C28_WinRate ==
    SummaryOfSome =>
        LET s == resp.val[1]
        IN  /\ s.total_recommendations = Cardinality(SummaryMatch)
            /\ Nearest(s.win_rate, 1000 * Cardinality(SummaryWins), s.total_recommendations)
            /\ s.active_count
                  = Cardinality({i \in SummaryMatch : records[i].status = "active"})
            /\ s.active_count + s.closed_count = s.total_recommendations

\* C28 witness: a summary of three records, one closed at a profit and two
\* active with profit_percent 0, gives a win_rate of 33.3 %
C28_Witness ==
    /\ SummaryOfSome
    /\ resp.val[1].total_recommendations = 3
    /\ resp.val[1].win_rate = 333
    /\ resp.val[1].active_count = 2
    /\ resp.val[1].closed_count = 1
    /\ Cardinality({i \in SummaryMatch : records[i].profit_percent = 0}) = 2

\* the records a returned curve is about
CurveMatch == {i \in Ids(records) : InCurve(records[i], resp.val[1].period, now)}

\* C29 (curve structure): every curve returned has four lists of one length,
\* with dates strictly ascending; a date is in dates exactly when a matching
\* record has that calendar entry date; daily_count[k] is the number of
\* matching records entered on dates[k]; and the daily_count values sum to the
\* number of matching records.
C29_CurveStructure ==
    resp.op = "performance" =>
        LET curve == resp.val[1]
            n == Len(curve.dates)
        IN  /\ Len(curve.daily_returns) = n
            /\ Len(curve.cumulative_returns) = n
            /\ Len(curve.daily_count) = n
            /\ \A k \in 1..(n - 1) : curve.dates[k] < curve.dates[k + 1]
            /\ {curve.dates[k] : k \in 1..n}
                  = {DateOf(records[i].entry_date) : i \in CurveMatch}
            /\ \A k \in 1..n :
                  curve.daily_count[k]
                      = Cardinality({i \in CurveMatch :
                                        DateOf(records[i].entry_date) = curve.dates[k]})
            /\ SumOver(curve.daily_count, 1..n) = Cardinality(CurveMatch)

\* C29 witness: a curve of two dates with a day between them on which nothing
\* was entered, two records on the first and one on the second
C29_Witness ==
    /\ resp.op = "performance"
    /\ resp.val[1].dates = <<0, 2>>
    /\ resp.val[1].daily_count = <<2, 1>>
    /\ Len(records) = 3

\* the records of a returned curve entered on its k-th date, and their profits
CurveDay(k) == {i \in CurveMatch : DateOf(records[i].entry_date) = resp.val[1].dates[k]}
DayProfit(k) == SumOver([i \in CurveDay(k) |-> records[i].profit_percent], CurveDay(k))

\* the product of the numbers of records of the first k dates
RECURSIVE CountProduct(_)
CountProduct(k) == IF k = 0 THEN 1 ELSE CountProduct(k - 1) * Cardinality(CurveDay(k))

\* the sum of the exact means of the first k dates, times CountProduct(k)
MeansTimesProduct(k) ==
    SumOver([j \in 1..k |-> DayProfit(j) * (CountProduct(k) \div Cardinality(CurveDay(j)))],
            1..k)

\* C30 as stated (curve values): in every curve returned, daily_returns[k] is
\* the mean of profit_percent over the records entered on dates[k], to two
\* decimals, and cumulative_returns[k] is the sum of the returned
\* daily_returns[1..k].
C30_CumulativeOfReturned ==
    resp.op = "performance" =>
        LET curve == resp.val[1]
        IN  \A k \in 1..Len(curve.dates) :
                /\ Nearest(curve.daily_returns[k], DayProfit(k), Cardinality(CurveDay(k)))
                /\ curve.cumulative_returns[k] = SumOver(curve.daily_returns, 1..k)

\* C30 amended: in every curve returned, daily_returns[k] is the mean of
\* profit_percent over the records entered on dates[k], rounded to two
\* decimals, and cumulative_returns[k] is the sum of the unrounded means of
\* dates[1..k], rounded to two decimals, within 0.005 for each date of the sum
\* of the returned daily_returns[1..k]; for profits {10, -2} on one day and {5}
\* on the next the curve has daily_returns [4.0, 5.0] and cumulative_returns
\* [4.0, 9.0].
C30_CurveValues ==
    resp.op = "performance" =>
        LET curve == resp.val[1]
        IN  /\ \A k \in 1..Len(curve.dates) :
                  /\ Nearest(curve.daily_returns[k], DayProfit(k), Cardinality(CurveDay(k)))
                  /\ Nearest(curve.cumulative_returns[k], MeansTimesProduct(k), CountProduct(k))
                  /\ 2 * (curve.cumulative_returns[k] - SumOver(curve.daily_returns, 1..k)) <= k + 1
                  /\ 2 * (SumOver(curve.daily_returns, 1..k) - curve.cumulative_returns[k]) <= k + 1
            /\ records = ExampleStore =>
                  /\ {records[i].profit_percent : i \in CurveDay(1)} = {1000, -200}
                  /\ {records[i].profit_percent : i \in CurveDay(2)} = {500}
                  /\ curve.daily_returns = <<400, 500>>
                  /\ curve.cumulative_returns = <<400, 900>>

\* C30 witness: two records with profits 16.67 % and 0 on each of two days:
\* the means are 8.335 and round to 8.34 each, the cumulative return of the
\* second day is 16.67, not their sum
C30_Witness ==
    /\ resp.op = "performance"
    /\ resp.val[1].daily_count = <<2, 2>>
    /\ DayProfit(1) = 1667
    /\ DayProfit(2) = 1667
    /\ resp.val[1].cumulative_returns[2] = 1667
    /\ resp.val[1].daily_returns[1] + resp.val[1].daily_returns[2] # 1667

\* the caller has every page of its walk
WalkDone ==
    /\ resp.op = "records"
    /\ resp.id * resp.val[1].page_size >= resp.val[1].pages[resp.id].total

\* the ids of the rows of a finished walk, in the order the pages gave them
RECURSIVE WalkIds(_)
WalkIds(k) ==
    IF k = 0 THEN <<>>
    ELSE WalkIds(k - 1) \o [m \in 1..Len(resp.val[1].pages[k].records) |->
                               resp.val[1].pages[k].records[m].id]

\* C31 (query pagination): when a caller has read pages 1..ceil(total/page_size)
\* of get_records with the same period and page size from an unchanged store,
\* the pages together hold every matching record exactly once, in entry_date
\* descending order across pages; total is the number of matching records on
\* every page; and the first row is a newest record.
C31_Pagination ==
    WalkDone =>
        LET ids == WalkIds(resp.id)
            match == {i \in Ids(records) : InPeriod(records[i], resp.val[1].period, now)}
        IN  /\ \A k \in 1..resp.id : resp.val[1].pages[k].total = Cardinality(match)
            /\ Len(ids) = Cardinality(match)
            /\ {ids[m] : m \in 1..Len(ids)} = match
            /\ \A m \in 1..(Len(ids) - 1) :
                  records[ids[m]].entry_date >= records[ids[m + 1]].entry_date
            /\ match # {} =>
                  \A i \in match : records[i].entry_date <= records[ids[1]].entry_date

\* C32 (period all): for period all, on any store, however old its entry
\* dates, the total of get_records, the total_recommendations of get_summary
\* and the sum of the daily_count of get_performance_curve are all the number
\* of stored records.
C32_PeriodAll ==
    /\ (resp.op = "summary" /\ resp.val[1].period = "all") =>
          /\ resp.val[1].total_recommendations = Len(records)
          /\ get_records(records, "all", None, None, 1, 1, now).total = Len(records)
    /\ (resp.op = "performance" /\ resp.val[1].period = "all") =>
          SumOver([k \in 1..Len(resp.val[1].daily_count) |-> resp.val[1].daily_count[k]],
                  1..Len(resp.val[1].daily_count)) = Len(records)

\* the records a step closes
ClosedInStep == {i \in Ids(records) : records[i].status = "active" /\ records'[i].status = "closed"}

\* C33 (close reason by path): in every reachable state the close_reason of a
\* closed record is one of profit, loss, expired, manual; a record that the
\* manual close endpoint closes gets the reason manual, and a record that the
\* sweep closes gets one of profit, loss, expired, never manual.
C33_CloseReasonByPath ==
    /\ [](\A i \in Ids(records) :
             records[i].status = "closed" =>
                 records[i].close_reason \in {Some("profit"), Some("loss"),
                                              Some("expired"), Some("manual")})
    /\ [][\A i \in ClosedInStep :
             /\ Returns("api-close") => records'[i].close_reason = Some("manual")
             /\ Returns("check-auto-close") =>
                    records'[i].close_reason \in {Some("profit"), Some("loss"), Some("expired")}
             /\ Returns("api-close") \/ Returns("check-auto-close")]_vars

\* one record closed by hand and beside it one closed by the sweep because it
\* expired
C33_Witness ==
    \E i, k \in Ids(records) :
        /\ records[i].status = "closed" /\ records[i].close_reason = Some("manual")
        /\ records[k].status = "closed" /\ records[k].close_reason = Some("expired")

\* the row a create step has inserted
Inserted == records'[Len(records')]

\* C34 as stated (initial record state): the record of a create that inserted
\* it has status active, profit_percent 0, holding_days 0, close_price,
\* close_date and close_reason null, and current_price and price_updated_at
\* null (they stay null until the first price update that covers its symbol).
C34_InitiallyUnpriced ==
    [][(Returns("create") /\ Len(records') = Len(records) + 1) =>
          /\ Inserted.status = "active"
          /\ Inserted.profit_percent = 0
          /\ Inserted.holding_days = 0
          /\ Inserted.close_price = None
          /\ Inserted.close_date = None
          /\ Inserted.close_reason = None
          /\ Inserted.current_price = None
          /\ Inserted.price_updated_at = None]_vars

\* C34 (initial record state): the record of a create that inserted it has
\* status active, profit_percent 0, holding_days 0, close_price, close_date
\* and close_reason null, current_price equal to its entry_price and
\* price_updated_at equal to its entry_date, the time of the create.
C34_InitialRecordState ==
    [][(Returns("create") /\ Len(records') = Len(records) + 1) =>
          /\ Inserted.status = "active"
          /\ Inserted.profit_percent = 0
          /\ Inserted.holding_days = 0
          /\ Inserted.close_price = None
          /\ Inserted.close_date = None
          /\ Inserted.close_reason = None
          /\ Inserted.current_price = Some(Inserted.entry_price)
          /\ Inserted.price_updated_at = Some(Inserted.entry_date)
          /\ Inserted.entry_date = now]_vars

\* C34 witness: a create has returned the id of the record it inserted, the
\* second of the store, on a later tick than the first
C34_Witness ==
    /\ resp.op = "create"
    /\ Len(records) = 2
    /\ resp.val = Some(2)
    /\ records[2].entry_date = now
    /\ records[1].entry_date < now

\* the records of the pair and the day session c asked for
SameDayRecords(c) ==
    {i \in Ids(records) : /\ records[i].symbol = sess[c].symbol
                          /\ records[i].category = sess[c].category
                          /\ DateOf(records[i].entry_date) = sess[c].today}

\* C35 (atomic dedup under concurrency): when two create_recommendation calls
\* with the same (symbol, category) on the same calendar day have both
\* returned, however their existence checks and inserts interleaved, the store
\* holds exactly one record of that pair and day and both calls returned its id.
C35_AtomicDedup ==
    \A c, d \in Closers :
        (/\ c # d
         /\ sess[c].pc = "done" /\ sess[d].pc = "done"
         /\ sess[c].symbol = sess[d].symbol
         /\ sess[c].category = sess[d].category
         /\ sess[c].today = sess[d].today) =>
            /\ Cardinality(SameDayRecords(c)) = 1
            /\ sess[c].ret = sess[d].ret
            /\ sess[c].ret # None /\ sess[c].ret[1] \in SameDayRecords(c)

\* session c commits an update_prices whose query loaded record i as active,
\* a close_position having committed for i since
CommitsOverClose(c, i) ==
    /\ sess[c].pc = "updating" /\ sess'[c].pc = "done"
    /\ i \in Ids(sess[c].loaded)
    /\ sess[c].loaded[i].status = "active"
    /\ records[i].status = "closed"

\* C36 (price update racing a close): when an update_prices run that loaded a
\* record as active commits after a close_position has committed for that
\* record, the record ends closed, with current_price equal to close_price
\* and profit_percent computed from close_price; and in every reachable state
\* a closed record has current_price equal to its close_price.
C36_UpdateRacingClose ==
    /\ [][\A c \in Closers, i \in Ids(records) :
             CommitsOverClose(c, i) =>
                 /\ records'[i].status = "closed"
                 /\ records'[i].current_price = records'[i].close_price
                 /\ records'[i].profit_percent
                        = ProfitPercent(records'[i].close_price[1], records'[i].entry_price)]_vars
    /\ [](\A i \in Ids(records) :
             records[i].status = "closed" =>
                 records[i].current_price = records[i].close_price)

\* record i is active and as old as the expiry limit, the policy switched on
DueToExpire(i) ==
    /\ i \in Ids(records)
    /\ records[i].status = "active"
    /\ cfg.auto_close_enabled
    /\ WholeDays(records[i].entry_date, now) >= cfg.max_holding_days

\* C37 (expiry is eventually enforced): with auto-close enabled and the
\* periodic cycle firing again and again, every active record whose age since
\* entry_date has reached max_holding_days is eventually closed, whatever the
\* quote calls of the cycles come to.
C37_ExpiryEventuallyEnforced ==
    \A i \in 1..MaxRecords :
        DueToExpire(i) ~> (i \in Ids(records) /\ records[i].status = "closed")

\* the list a sweep returns in this step, from the endpoint or from the cycle
\* of job j; the empty list in any other step
ListOfEndpoint == IF Returns("check-auto-close") THEN resp'.val ELSE <<>>
ListOfJob(j) == IF jobs[j].pc = "sweep" /\ jobs'[j].pc = "done" THEN jobs'[j].closed ELSE <<>>

\* list names record i, once
Lists(list, i) == Cardinality({k \in 1..Len(list) : list[k].id = i}) = 1
ListsOnlyOnce(list) ==
    \A k, l \in 1..Len(list) : list[k].id = list[l].id => k = l

\* C38 (no double reporting across sweeps): over scheduled sweeps, sweeps
\* triggered by check-auto-close and manual closes, interleaved as the event
\* loop lets them, a sweep lists a record once and only when the record was
\* active and never closed before that sweep and is closed by it, with a reason
\* of the policy; and a closed record stays closed with its reason: so each
\* record id is in the list of at most one sweep, and in none when a manual
\* close closed it.
C38_NoDoubleReporting ==
    /\ [][/\ ListsOnlyOnce(ListOfEndpoint)
          /\ \A j \in JobIds : ListsOnlyOnce(ListOfJob(j))
          /\ \A i \in 1..MaxRecords :
                (Lists(ListOfEndpoint, i) \/ \E j \in JobIds : Lists(ListOfJob(j), i)) =>
                    /\ i \in Ids(records)
                    /\ records[i].status = "active"
                    /\ records[i].close_reason = None
                    /\ records'[i].status = "closed"
                    /\ records'[i].close_reason \in AutoReasons]_vars
    /\ [][\A i \in Ids(records) :
             records[i].status = "closed" =>
                 /\ records'[i].status = "closed"
                 /\ records'[i].close_reason = records[i].close_reason]_vars

\* C38 witness: the sweep of a cycle has listed one record, a manual close has
\* closed the other, and a sweep triggered after both, the policy switched on,
\* has returned an empty list
C38_Witness ==
    /\ resp.op = "check-auto-close" /\ resp.val = <<>>
    /\ cfg.auto_close_enabled
    /\ \E j \in JobIds, i, m \in Ids(records) :
          /\ jobs[j].pc = "done"
          /\ Len(jobs[j].closed) = 1 /\ jobs[j].closed[1].id = i
          /\ records[i].status = "closed" /\ records[i].close_reason \in AutoReasons
          /\ records[m].status = "closed" /\ records[m].close_reason = Some("manual")

\* the records of symbol s in the first category
OfPair(s) == {i \in Ids(records) : records[i].symbol = s /\ records[i].category = "shortterm"}

\* C39 (dedup ignores status): a create for a (symbol, category) whose record
\* of today is closed returns that record's id, changes no record and inserts
\* nothing, so that the store never holds two records of one pair and day,
\* active or closed; a create on a later calendar day than every record of the
\* pair inserts a new, distinct, active record and leaves the others as they
\* were.
C39_DedupIgnoresStatus ==
    /\ [][\A s \in Symbols :
             CreateRecommendation(s, "shortterm", Some(12)) =>
                 /\ \A i \in OfPair(s) :
                       (DateOf(records[i].entry_date) = DateOf(now)
                        /\ records[i].status = "closed") =>
                           (records' = records /\ resp'.val = Some(i))
                 /\ (OfPair(s) # {}
                     /\ \A i \in OfPair(s) : DateOf(records[i].entry_date) < DateOf(now)) =>
                           /\ Len(records') = Len(records) + 1
                           /\ resp'.val = Some(Len(records'))
                           /\ records'[Len(records')].status = "active"
                           /\ DedupKey(records'[Len(records')]) = <<s, "shortterm", DateOf(now)>>
                           /\ \A i \in Ids(records) : records'[i] = records[i]]_vars
    /\ [](\A i, k \in Ids(records) : DedupKey(records[i]) = DedupKey(records[k]) => i = k)

\* C39 witness: a create has returned the id of the closed record of its pair
\* entered earlier on the same day, nothing inserted
C39_Witness ==
    /\ resp.op = "create" /\ resp.val = Some(1)
    /\ Len(records) = 1
    /\ records[1].status = "closed"
    /\ records[1].entry_date < now
    /\ DateOf(records[1].entry_date) = DateOf(now)

====
